---------------------------- MODULE Spec2Model ----------------------------
(***************************************************************************)
(* A model of sheets-mcp (src/handlers.go, src/server.go): the argument    *)
(* coercion, the A1-range parsing, the tool handlers and the batch tools.  *)
(*                                                                         *)
(* Every invocation of the server is synchronous and runs to completion,   *)
(* so an action is one whole call, taken when no call is in progress: it   *)
(* draws the call's inputs (and, for a handler, the replies of the remote  *)
(* API) and records the call, its input and what it returned.              *)
(*                                                                         *)
(* Go values are modelled as follows.                                      *)
(*   string        the sequence of its bytes, each byte a one-character    *)
(*                 TLA+ string; Ord gives the byte's code                  *)
(*   error         a tuple, <<>> for nil, <<message, detail...>> otherwise *)
(*   *T            a tuple, <<>> for nil, <<value>> otherwise              *)
(*   any           a record [type |-> dynamic type, val |-> value]         *)
(*   map[string]any  a function from the set of its keys                   *)
(*   float64       the integer 10*v (only tenths occur in the model)       *)
(* int64 arithmetic is exact here: the bounds below keep every value far   *)
(* under 2^31, so no int64 operation of the modelled code can wrap.        *)
(***************************************************************************)
EXTENDS Integers, Sequences, FiniteSets, TLC

VARIABLES
    op,      \* the function or handler invoked last ("none" before any call)
    input,   \* the arguments of that call
    output,  \* what the call returned
    calls,   \* the remote API calls the invocation issued, in order
    server   \* the SheetsMCPServer the handlers are methods of

vars == <<op, input, output, calls, server>>

-----------------------------------------------------------------------------
(* Bounds of the model *)

MaxLetters == 2    \* longest column-letter run of a generated cell
MaxDigits == 2     \* longest row-digit run of a generated cell
MaxCellLen == 3    \* longest arbitrary cell string
MaxRangeLen == 5   \* longest arbitrary range string
MaxItems == 3      \* most items of a batch

-----------------------------------------------------------------------------
(* Bytes and strings *)

UpperSeq ==
    <<"A", "B", "C", "D", "E", "F", "G", "H", "I", "J", "K", "L", "M",
      "N", "O", "P", "Q", "R", "S", "T", "U", "V", "W", "X", "Y", "Z">>

DigitSeq == <<"0", "1", "2", "3", "4", "5", "6", "7", "8", "9">>

Upper == {UpperSeq[i] : i \in 1..26}
Digit == {DigitSeq[i] : i \in 1..10}

\* Bytes that are neither an uppercase letter nor a digit.
OtherBytes == {":", "$", "a"}

\* The ASCII code of a byte.
Ord ==
    [c \in Upper \cup Digit \cup OtherBytes |->
        IF c \in Upper THEN 64 + (CHOOSE i \in 1..26 : UpperSeq[i] = c)
        ELSE IF c \in Digit THEN 47 + (CHOOSE i \in 1..10 : DigitSeq[i] = c)
        ELSE IF c = ":" THEN 58
        ELSE IF c = "$" THEN 36
        ELSE 97]

\* All strings over alphabet a of length lo..hi.
Strings(a, lo, hi) == UNION {[1..n -> a] : n \in lo..hi}

\* strings.Split(s, sep) for a one-byte separator: the fields between the
\* separators, so a string without separator is its own single field.
RECURSIVE SplitFrom(_, _, _, _)
SplitFrom(s, sep, i, field) ==
    IF i > Len(s) THEN <<field>>
    ELSE IF s[i] = sep THEN <<field>> \o SplitFrom(s, sep, i + 1, <<>>)
    ELSE SplitFrom(s, sep, i + 1, Append(field, s[i]))

Split(s, sep) == SplitFrom(s, sep, 1, <<>>)

\* strings.Split(s, sep) for a separator of any length >= 1: the separators
\* are found from the left and do not overlap.
RECURSIVE SplitOnFrom(_, _, _, _)
SplitOnFrom(s, sep, i, field) ==
    IF i > Len(s) THEN <<field>>
    ELSE IF i + Len(sep) - 1 <= Len(s) /\ SubSeq(s, i, i + Len(sep) - 1) = sep
    THEN <<field>> \o SplitOnFrom(s, sep, i + Len(sep), <<>>)
    ELSE SplitOnFrom(s, sep, i + 1, Append(field, s[i]))

SplitOn(s, sep) == SplitOnFrom(s, sep, 1, <<>>)

\* The decimal digits of n >= 0, without leading zeros.
RECURSIVE DecimalDigits(_)
DecimalDigits(n) ==
    IF n < 10 THEN <<DigitSeq[n + 1]>>
    ELSE Append(DecimalDigits(n \div 10), DigitSeq[(n % 10) + 1])

-----------------------------------------------------------------------------
(* parseA1Notation, src/handlers.go:1482 *)

\* for i < len(cell) && cell[i] >= 'A' && cell[i] <= 'Z' { col = col*26 + ...; i++ }
\* i is the Go index (0-based); the result is the loop's final i and col.
RECURSIVE LetterLoop(_, _, _)
LetterLoop(cell, i, col) ==
    IF i < Len(cell) /\ Ord[cell[i + 1]] >= Ord["A"] /\ Ord[cell[i + 1]] <= Ord["Z"]
    THEN LetterLoop(cell, i + 1, col * 26 + (Ord[cell[i + 1]] - Ord["A"] + 1))
    ELSE [i |-> i, col |-> col]

\* for i < len(cell) { if cell[i] < '0' || cell[i] > '9' { return error }; row = row*10 + ...; i++ }
RECURSIVE DigitLoop(_, _, _)
DigitLoop(cell, i, row) ==
    IF i < Len(cell)
    THEN IF Ord[cell[i + 1]] < Ord["0"] \/ Ord[cell[i + 1]] > Ord["9"]
         THEN [ok |-> FALSE, row |-> row]
         ELSE DigitLoop(cell, i + 1, row * 10 + (Ord[cell[i + 1]] - Ord["0"]))
    ELSE [ok |-> TRUE, row |-> row]

InvalidCell(cell) == <<"invalid cell notation", cell>>

\* Variant: the decrement of col after the letter loop is left out.
parseA1Notation_NoColDecrement(cell) ==
    LET l == LetterLoop(cell, 0, 0)
        d == DigitLoop(cell, l.i, 0)
    IN  IF l.i = Len(cell) THEN [col |-> 0, row |-> 0, err |-> InvalidCell(cell)]
        ELSE IF ~d.ok THEN [col |-> 0, row |-> 0, err |-> InvalidCell(cell)]
        ELSE [col |-> l.col, row |-> d.row - 1, err |-> <<>>]

\* Variant: the decrement of row after the digit loop is left out.
parseA1Notation_NoRowDecrement(cell) ==
    LET l == LetterLoop(cell, 0, 0)
        d == DigitLoop(cell, l.i, 0)
    IN  IF l.i = Len(cell) THEN [col |-> 0, row |-> 0, err |-> InvalidCell(cell)]
        ELSE IF ~d.ok THEN [col |-> 0, row |-> 0, err |-> InvalidCell(cell)]
        ELSE [col |-> l.col - 1, row |-> d.row, err |-> <<>>]

\* The result (col, row, err) of parseA1Notation(cell).
parseA1Notation(cell) ==
    LET l == LetterLoop(cell, 0, 0)
        col == l.col - 1
        d == DigitLoop(cell, l.i, 0)
    IN  IF l.i = Len(cell) THEN [col |-> 0, row |-> 0, err |-> InvalidCell(cell)]
        ELSE IF ~d.ok THEN [col |-> 0, row |-> 0, err |-> InvalidCell(cell)]
        ELSE [col |-> col, row |-> d.row - 1, err |-> <<>>]

-----------------------------------------------------------------------------
(* parseGridRange, src/handlers.go:1457 *)

GridRange(sheetID, startRow, endRow, startCol, endCol) ==
    [SheetId |-> sheetID,
     StartRowIndex |-> startRow, EndRowIndex |-> endRow,
     StartColumnIndex |-> startCol, EndColumnIndex |-> endCol]

\* Variant: the len(parts) != 2 test only rejects a string without colon.
parseGridRange_AtLeastTwoParts(sheetID, rangeStr) ==
    LET parts == Split(rangeStr, ":")
    IN  IF Len(parts) < 2
        THEN [gridRange |-> <<>>, err |-> <<"range must be in A1:B2 format">>]
        ELSE LET s == parseA1Notation(parts[1])
                 e == parseA1Notation(parts[2])
             IN  IF s.err # <<>> THEN [gridRange |-> <<>>, err |-> s.err]
                 ELSE IF e.err # <<>> THEN [gridRange |-> <<>>, err |-> e.err]
                 ELSE [gridRange |-> <<GridRange(sheetID, s.row, e.row + 1, s.col, e.col + 1)>>,
                       err |-> <<>>]

\* Variant: the end bounds are not made exclusive.
parseGridRange_InclusiveEnd(sheetID, rangeStr) ==
    LET parts == Split(rangeStr, ":")
    IN  IF Len(parts) # 2
        THEN [gridRange |-> <<>>, err |-> <<"range must be in A1:B2 format">>]
        ELSE LET s == parseA1Notation(parts[1])
                 e == parseA1Notation(parts[2])
             IN  IF s.err # <<>> THEN [gridRange |-> <<>>, err |-> s.err]
                 ELSE IF e.err # <<>> THEN [gridRange |-> <<>>, err |-> e.err]
                 ELSE [gridRange |-> <<GridRange(sheetID, s.row, e.row, s.col, e.col)>>,
                       err |-> <<>>]

\* The result (*GridRange, error) of parseGridRange(sheetID, rangeStr).
parseGridRange(sheetID, rangeStr) ==
    LET parts == Split(rangeStr, ":")
    IN  IF Len(parts) # 2
        THEN [gridRange |-> <<>>, err |-> <<"range must be in A1:B2 format">>]
        ELSE LET s == parseA1Notation(parts[1])
                 e == parseA1Notation(parts[2])
             IN  IF s.err # <<>> THEN [gridRange |-> <<>>, err |-> s.err]
                 ELSE IF e.err # <<>> THEN [gridRange |-> <<>>, err |-> e.err]
                 ELSE [gridRange |-> <<GridRange(sheetID, s.row, e.row + 1, s.col, e.col + 1)>>,
                       err |-> <<>>]

-----------------------------------------------------------------------------
(* Dynamically typed values (Go's any, as encoding/json decodes it) *)

StringV(s) == [type |-> "string", val |-> s]
FloatV(tenths) == [type |-> "float64", val |-> tenths]
BoolV(b) == [type |-> "bool", val |-> b]
MapV(m) == [type |-> "map[string]any", val |-> m]
ListV(l) == [type |-> "[]any", val |-> l]
NilV == [type |-> "nil", val |-> <<>>]
\* A []map[string]any handed over as an any; the nil slice is the slice of
\* length 0.
MapsV(l) == [type |-> "[]map[string]any", val |-> l]

\* The map with no key.
EmptyMap == [k \in {} |-> NilV]

\* All maps from a subset of keys to values.
Bags(keys, values) == UNION {[d -> values] : d \in SUBSET keys}

-----------------------------------------------------------------------------
(* parseArgument, src/server.go:412 *)

\* Variant: the value's dynamic type is not tested.
parseArgument_NoTypeTest(args, key, defaultValue) ==
    IF key \in DOMAIN args THEN args[key] ELSE defaultValue

\* parseArgument[T](args, key, defaultValue).  Every call of the program passes
\* a default of a concrete type (string, float64 or bool), so T is the dynamic
\* type of defaultValue and val.(T) succeeds exactly for a value of that type.
parseArgument(args, key, defaultValue) ==
    IF key \in DOMAIN args
    THEN IF args[key].type = defaultValue.type
         THEN args[key]
         ELSE defaultValue
    ELSE defaultValue

-----------------------------------------------------------------------------
(* parseColor, src/handlers.go:1509 *)

Color(red, green, blue, alpha) ==
    [Red |-> red, Green |-> green, Blue |-> blue, Alpha |-> alpha]

ColorError == <<"color must be an object with red, green, blue fields">>

\* Variant: a missing alpha defaults to 0.0 like the other components.
parseColor_AlphaZero(colorRaw) ==
    IF colorRaw.type # "map[string]any"
    THEN [color |-> <<>>, err |-> ColorError]
    ELSE [color |-> <<Color(parseArgument(colorRaw.val, "red", FloatV(0)).val,
                            parseArgument(colorRaw.val, "green", FloatV(0)).val,
                            parseArgument(colorRaw.val, "blue", FloatV(0)).val,
                            parseArgument(colorRaw.val, "alpha", FloatV(0)).val)>>,
          err |-> <<>>]

\* The result (*Color, error) of parseColor(colorRaw).
parseColor(colorRaw) ==
    IF colorRaw.type # "map[string]any"
    THEN [color |-> <<>>, err |-> ColorError]
    ELSE [color |-> <<Color(parseArgument(colorRaw.val, "red", FloatV(0)).val,
                            parseArgument(colorRaw.val, "green", FloatV(0)).val,
                            parseArgument(colorRaw.val, "blue", FloatV(0)).val,
                            parseArgument(colorRaw.val, "alpha", FloatV(10)).val)>>,
          err |-> <<>>]

-----------------------------------------------------------------------------
(* Responses, src/server.go:421 and :434 *)

\* What a handler hands back: the JSON value of its result, or no result at
\* all because a run-time panic left the handler (no handler recovers).
respondWithJSON(result) == [panic |-> FALSE, body |-> result]
respondWithError(errMsg) == respondWithJSON([error |-> errMsg])
Panic == [panic |-> TRUE, body |-> <<>>]

\* An invocation's outcome: its response and the remote calls it issued.
Outcome(response, issued) == [response |-> response, calls |-> issued]

-----------------------------------------------------------------------------
(* The remote API, as the handlers see it: a call and its reply *)

GetCall(spreadsheetID) == [api |-> "Spreadsheets.Get", spreadsheetID |-> spreadsheetID]

BatchUpdateCall(spreadsheetID, requests) ==
    [api |-> "Spreadsheets.BatchUpdate", spreadsheetID |-> spreadsheetID,
     requests |-> requests]

ValuesGetCall(spreadsheetID, fullRange) ==
    [api |-> "Spreadsheets.Values.Get", spreadsheetID |-> spreadsheetID,
     range |-> fullRange]

\* Variant: the separator between sheet and range is left out.
FullRange_NoSeparator(sheet, rangeStr) == sheet \o rangeStr

\* fmt.Sprintf("%s!%s", sheet, rangeStr)
FullRange(sheet, rangeStr) == sheet \o <<"!">> \o rangeStr

-----------------------------------------------------------------------------
(* getSheetID, src/handlers.go:454 *)

\* Variant: titles are compared without regard to case.
getSheetID_IgnoreCase(spreadsheetID, sheetName, getReply) ==
    LET Fold(s) == [k \in 1..Len(s) |-> IF s[k] = "s" THEN "S" ELSE s[k]]
    IN  IF getReply.err # <<>> THEN [sheetID |-> 0, err |-> getReply.err]
        ELSE LET found == {i \in 1..Len(getReply.sheets) :
                             Fold(getReply.sheets[i].Title) = Fold(sheetName)}
             IN  IF found = {}
                 THEN [sheetID |-> 0, err |-> <<"sheet not found", sheetName>>]
                 ELSE [sheetID |-> getReply.sheets[CHOOSE i \in found : \A j \in found : i <= j].SheetId,
                       err |-> <<>>]

\* The result (int64, error) of getSheetID(spreadsheetID, sheetName), where
\* getReply is the reply of the Spreadsheets.Get call it issues.
getSheetID(spreadsheetID, sheetName, getReply) ==
    IF getReply.err # <<>> THEN [sheetID |-> 0, err |-> getReply.err]
    ELSE LET found == {i \in 1..Len(getReply.sheets) : getReply.sheets[i].Title = sheetName}
         IN  IF found = {}
             THEN [sheetID |-> 0, err |-> <<"sheet not found", sheetName>>]
             ELSE [sheetID |-> getReply.sheets[CHOOSE i \in found : \A j \in found : i <= j].SheetId,
                   err |-> <<>>]

-----------------------------------------------------------------------------
(* handleFormatCells, src/handlers.go:1097 *)

\* getArgsFromRequest: request.Params.Arguments.(map[string]any)
getArgsFromRequest(request) ==
    IF request.Arguments.type = "map[string]any"
    THEN [args |-> request.Arguments.val, err |-> <<>>]
    ELSE [args |-> EmptyMap, err |-> <<"invalid arguments">>]

ZeroTextFormat == [ForegroundColor |-> <<>>, Bold |-> FALSE, Italic |-> FALSE, FontSize |-> 0]
ZeroCellFormat == [BackgroundColor |-> <<>>, TextFormat |-> <<>>]

\* if cellFormat.TextFormat == nil { cellFormat.TextFormat = &sheets.TextFormat{} }
EnsureTextFormat(cf) ==
    IF cf.TextFormat = <<>> THEN [cf EXCEPT !.TextFormat = <<ZeroTextFormat>>] ELSE cf

\* int64(f) for a float64: the fraction is dropped (truncation toward zero).
Int64OfFloat(tenths) == IF tenths >= 0 THEN tenths \div 10 ELSE -((-tenths) \div 10)

\* The formatting state while the options are read: the cell format built so
\* far, the field mask, and whether a type assertion has panicked.
FormatStart == [cellFormat |-> ZeroCellFormat, fields |-> <<>>, panicked |-> FALSE]

\* Lines 1123-1128: background_color, kept only when parseColor accepts it.
FormatBackground(st, args) ==
    IF "background_color" \in DOMAIN args /\ parseColor(args["background_color"]).err = <<>>
    THEN [st EXCEPT !.cellFormat.BackgroundColor = parseColor(args["background_color"]).color,
                    !.fields = Append(@, "backgroundColor")]
    ELSE st

\* Lines 1130-1138: text_color, kept only when parseColor accepts it.
FormatTextColor(st, args) ==
    IF "text_color" \in DOMAIN args /\ parseColor(args["text_color"]).err = <<>>
    THEN [st EXCEPT !.cellFormat =
                        [EnsureTextFormat(@) EXCEPT !.TextFormat[1].ForegroundColor =
                            parseColor(args["text_color"]).color],
                    !.fields = Append(@, "textFormat.foregroundColor")]
    ELSE st

\* Lines 1140-1146: bold.(bool) is an unchecked type assertion.
FormatBold(st, args) ==
    IF st.panicked \/ "bold" \notin DOMAIN args THEN st
    ELSE IF args["bold"].type # "bool" THEN [st EXCEPT !.panicked = TRUE]
    ELSE [st EXCEPT !.cellFormat =
                        [EnsureTextFormat(@) EXCEPT !.TextFormat[1].Bold = args["bold"].val],
                    !.fields = Append(@, "textFormat.bold")]

\* Lines 1148-1154: italic.(bool) is an unchecked type assertion.
FormatItalic(st, args) ==
    IF st.panicked \/ "italic" \notin DOMAIN args THEN st
    ELSE IF args["italic"].type # "bool" THEN [st EXCEPT !.panicked = TRUE]
    ELSE [st EXCEPT !.cellFormat =
                        [EnsureTextFormat(@) EXCEPT !.TextFormat[1].Italic = args["italic"].val],
                    !.fields = Append(@, "textFormat.italic")]

\* Lines 1156-1162: fontSize.(float64) is an unchecked type assertion.
FormatFontSize(st, args) ==
    IF st.panicked \/ "font_size" \notin DOMAIN args THEN st
    ELSE IF args["font_size"].type # "float64" THEN [st EXCEPT !.panicked = TRUE]
    ELSE [st EXCEPT !.cellFormat =
                        [EnsureTextFormat(@) EXCEPT !.TextFormat[1].FontSize =
                            Int64OfFloat(args["font_size"].val)],
                    !.fields = Append(@, "textFormat.fontSize")]

\* Lines 1120-1162: the five options, read in the order of the code.
FormatOptions(args) ==
    FormatFontSize(FormatItalic(FormatBold(
        FormatTextColor(FormatBackground(FormatStart, args), args), args), args), args)

\* strings.Join(elems, sep): the elements with sep between neighbours, as the
\* sequence of the pieces of the resulting string.
RECURSIVE Join(_, _)
Join(elems, sep) ==
    IF Len(elems) <= 1 THEN elems
    ELSE <<Head(elems), sep>> \o Join(Tail(elems), sep)

\* The RepeatCell request of lines 1168-1178.
RepeatCellRequest(gridRange, cellFormat, fields) ==
    [RepeatCell |-> [Range |-> gridRange, UserEnteredFormat |-> cellFormat,
                     Fields |-> Join(fields, ",")]]

\* The outcome of handleFormatCells(request); getReply and batchReply are the
\* replies of the remote calls, should the handler come to issue them.
handleFormatCells(request, getReply, batchReply) ==
    LET a == getArgsFromRequest(request)
        args == a.args
        spreadsheetID == parseArgument(args, "spreadsheet_id", StringV(<<>>)).val
        sheet == parseArgument(args, "sheet", StringV(<<>>)).val
        rangeStr == parseArgument(args, "range", StringV(<<>>)).val
        id == getSheetID(spreadsheetID, sheet, getReply)
        grid == parseGridRange(id.sheetID, rangeStr)
        st == FormatOptions(args)
        requests == <<RepeatCellRequest(grid.gridRange, st.cellFormat, st.fields)>>
    IN  IF a.err # <<>> THEN Outcome(respondWithError(a.err), <<>>)
        ELSE IF spreadsheetID = <<>> \/ sheet = <<>> \/ rangeStr = <<>>
        THEN Outcome(respondWithError(<<"spreadsheet_id, sheet, and range are required">>), <<>>)
        ELSE IF id.err # <<>>
        THEN Outcome(respondWithError(<<"failed to get sheet ID">> \o id.err),
                     <<GetCall(spreadsheetID)>>)
        ELSE IF grid.err # <<>>
        THEN Outcome(respondWithError(<<"invalid range format">> \o grid.err),
                     <<GetCall(spreadsheetID)>>)
        ELSE IF st.panicked
        THEN Outcome(Panic, <<GetCall(spreadsheetID)>>)
        ELSE IF Len(st.fields) = 0
        THEN Outcome(respondWithError(<<"at least one formatting option must be provided">>),
                     <<GetCall(spreadsheetID)>>)
        ELSE IF batchReply.err # <<>>
        THEN Outcome(respondWithError(<<"failed to format cells">> \o batchReply.err),
                     <<GetCall(spreadsheetID), BatchUpdateCall(spreadsheetID, requests)>>)
        ELSE Outcome(respondWithJSON(batchReply.result),
                     <<GetCall(spreadsheetID), BatchUpdateCall(spreadsheetID, requests)>>)

-----------------------------------------------------------------------------
(* Decoding a batch argument: json.Marshal, then json.Unmarshal into a typed
   slice (src/handlers.go:572-580, 633-641, 729-737) *)

\* m[k] of a Go map[string]string: the zero value "" for a key not in the map.
Lookup(m, k) == IF k \in DOMAIN m THEN m[k] ELSE <<>>

\* encoding/json decodes a JSON string into a Go string and leaves the string
\* "" on null; any other JSON value is an UnmarshalTypeError.
StringDecodable(v) == v.type \in {"string", "nil"}
DecodedString(v) == IF v.type = "string" THEN v.val ELSE <<>>

\* A JSON object decodes into map[string]string when each member does; null
\* decodes into the nil map.
MapDecodable(v) ==
    \/ v.type = "nil"
    \/ /\ v.type = "map[string]any"
       /\ \A k \in DOMAIN v.val : StringDecodable(v.val[k])

DecodedMap(v) ==
    IF v.type = "nil" THEN [k \in {} |-> <<>>]
    ELSE [k \in DOMAIN v.val |-> DecodedString(v.val[k])]

UnmarshalError == <<"json: cannot unmarshal">>

\* The result of json.Unmarshal(json.Marshal(raw), &v) for v []map[string]string.
UnmarshalStringMaps(raw) ==
    IF raw.type = "nil" THEN [val |-> <<>>, err |-> <<>>]
    ELSE IF raw.type # "[]any" THEN [val |-> <<>>, err |-> UnmarshalError]
    ELSE IF \E i \in 1..Len(raw.val) : ~MapDecodable(raw.val[i])
    THEN [val |-> <<>>, err |-> UnmarshalError]
    ELSE [val |-> [i \in 1..Len(raw.val) |-> DecodedMap(raw.val[i])], err |-> <<>>]

\* The result of json.Unmarshal(json.Marshal(raw), &v) for v []string.
UnmarshalStrings(raw) ==
    IF raw.type = "nil" THEN [val |-> <<>>, err |-> <<>>]
    ELSE IF raw.type # "[]any" THEN [val |-> <<>>, err |-> UnmarshalError]
    ELSE IF \E i \in 1..Len(raw.val) : ~StringDecodable(raw.val[i])
    THEN [val |-> <<>>, err |-> UnmarshalError]
    ELSE [val |-> [i \in 1..Len(raw.val) |-> DecodedString(raw.val[i])], err |-> <<>>]

-----------------------------------------------------------------------------
(* handleGetMultipleSheetData, src/handlers.go:562 *)

MissingKeys == <<"Missing required keys (spreadsheet_id, sheet, range)">>

\* Variant: a failed read still yields a data entry.
QueryStep_DataOnError(query, reply) ==
    LET spreadsheetID == Lookup(query, "spreadsheet_id")
        sheet == Lookup(query, "sheet")
        rangeStr == Lookup(query, "range")
        call == ValuesGetCall(spreadsheetID, FullRange(sheet, rangeStr))
    IN  IF spreadsheetID = <<>> \/ sheet = <<>> \/ rangeStr = <<>>
        THEN [entry |-> [spreadsheet_id |-> spreadsheetID, sheet |-> sheet,
                         range |-> rangeStr, error |-> MissingKeys],
              calls |-> <<>>]
        ELSE [entry |-> [spreadsheet_id |-> spreadsheetID, sheet |-> sheet,
                         range |-> rangeStr, data |-> reply.Values],
              calls |-> <<call>>]

\* One turn of the loop of lines 584-618: the entry appended for the query and
\* the remote read issued for it; reply is the reply of that read.
QueryStep(query, reply) ==
    LET spreadsheetID == Lookup(query, "spreadsheet_id")
        sheet == Lookup(query, "sheet")
        rangeStr == Lookup(query, "range")
        call == ValuesGetCall(spreadsheetID, FullRange(sheet, rangeStr))
    IN  IF spreadsheetID = <<>> \/ sheet = <<>> \/ rangeStr = <<>>
        THEN [entry |-> [spreadsheet_id |-> spreadsheetID, sheet |-> sheet,
                         range |-> rangeStr, error |-> MissingKeys],
              calls |-> <<>>]
        ELSE IF reply.err # <<>>
        THEN [entry |-> [spreadsheet_id |-> spreadsheetID, sheet |-> sheet,
                         range |-> rangeStr, error |-> reply.err],
              calls |-> <<call>>]
        ELSE [entry |-> [spreadsheet_id |-> spreadsheetID, sheet |-> sheet,
                         range |-> rangeStr, data |-> reply.Values],
              calls |-> <<call>>]

\* The loop of lines 584-618 from query i on; acc holds the results appended
\* and the calls issued so far.
RECURSIVE QueryLoop(_, _, _, _)
QueryLoop(queries, replies, i, acc) ==
    IF i > Len(queries) THEN acc
    ELSE LET st == QueryStep(queries[i], replies[i])
         IN  QueryLoop(queries, replies, i + 1,
                       [results |-> Append(acc.results, st.entry),
                        calls |-> acc.calls \o st.calls])

\* The outcome of handleGetMultipleSheetData(request); valuesReplies[i] is the
\* reply of the read issued for query i.
handleGetMultipleSheetData(request, valuesReplies) ==
    LET a == getArgsFromRequest(request)
        args == a.args
        queries == UnmarshalStringMaps(args["queries"])
        done == QueryLoop(queries.val, valuesReplies, 1, [results |-> <<>>, calls |-> <<>>])
    IN  IF a.err # <<>> THEN Outcome(respondWithError(a.err), <<>>)
        ELSE IF "queries" \notin DOMAIN args
        THEN Outcome(respondWithError(<<"queries is required">>), <<>>)
        ELSE IF queries.err # <<>>
        THEN Outcome(respondWithError(<<"invalid queries format">>), <<>>)
        ELSE Outcome(respondWithJSON(MapsV(done.results)), done.calls)

-----------------------------------------------------------------------------
(* handleShareSpreadsheet, src/handlers.go:712 *)

Reader == <<"r", "e", "a", "d", "e", "r">>
Commenter == <<"c", "o", "m", "m", "e", "n", "t", "e", "r">>
Writer == <<"w", "r", "i", "t", "e", "r">>

PermissionsCreateCall(spreadsheetID, permission, sendNotification) ==
    [api |-> "Permissions.Create", fileID |-> spreadsheetID, permission |-> permission,
     sendNotificationEmail |-> sendNotification, fields |-> "id"]

MissingEmail == <<"Missing email_address in recipient entry.">>

\* fmt.Sprintf("Invalid role '%s'. Must be 'reader', 'commenter', or 'writer'.", role)
InvalidRole(role) ==
    <<"Invalid role '">> \o role \o <<"'. Must be 'reader', 'commenter', or 'writer'.">>

\* Variant: a recipient without role is shared with as reader.
ShareStep_EmptyRoleAsReader(spreadsheetID, sendNotification, recipient, reply) ==
    LET emailAddress == Lookup(recipient, "email_address")
        given == Lookup(recipient, "role")
        role == IF given = <<>> THEN Reader ELSE given
        permission == [Type |-> "user", Role |-> role, EmailAddress |-> emailAddress]
        call == PermissionsCreateCall(spreadsheetID, permission, sendNotification)
    IN  IF emailAddress = <<>>
        THEN [successes |-> <<>>,
              failures |-> <<[email_address |-> NilV, error |-> MissingEmail]>>,
              calls |-> <<>>]
        ELSE IF role # Reader /\ role # Commenter /\ role # Writer
        THEN [successes |-> <<>>,
              failures |-> <<[email_address |-> StringV(emailAddress),
                              error |-> InvalidRole(role)]>>,
              calls |-> <<>>]
        ELSE IF reply.err # <<>>
        THEN [successes |-> <<>>,
              failures |-> <<[email_address |-> StringV(emailAddress),
                              error |-> <<"Failed to share: ">> \o reply.err]>>,
              calls |-> <<call>>]
        ELSE [successes |-> <<[email_address |-> StringV(emailAddress), role |-> role,
                               permissionId |-> reply.Id]>>,
              failures |-> <<>>,
              calls |-> <<call>>]

\* One turn of the loop of lines 742-788: what the recipient adds to successes
\* and to failures (one entry in all), and the call issued for it.  The
\* email_address of an entry is an any: nil or the string.
ShareStep(spreadsheetID, sendNotification, recipient, reply) ==
    LET emailAddress == Lookup(recipient, "email_address")
        given == Lookup(recipient, "role")
        role == IF given = <<>> THEN Writer ELSE given
        permission == [Type |-> "user", Role |-> role, EmailAddress |-> emailAddress]
        call == PermissionsCreateCall(spreadsheetID, permission, sendNotification)
    IN  IF emailAddress = <<>>
        THEN [successes |-> <<>>,
              failures |-> <<[email_address |-> NilV, error |-> MissingEmail]>>,
              calls |-> <<>>]
        ELSE IF role # Reader /\ role # Commenter /\ role # Writer
        THEN [successes |-> <<>>,
              failures |-> <<[email_address |-> StringV(emailAddress),
                              error |-> InvalidRole(role)]>>,
              calls |-> <<>>]
        ELSE IF reply.err # <<>>
        THEN [successes |-> <<>>,
              failures |-> <<[email_address |-> StringV(emailAddress),
                              error |-> <<"Failed to share: ">> \o reply.err]>>,
              calls |-> <<call>>]
        ELSE [successes |-> <<[email_address |-> StringV(emailAddress), role |-> role,
                               permissionId |-> reply.Id]>>,
              failures |-> <<>>,
              calls |-> <<call>>]

\* Variant: an entry is put in front of its list instead of behind it.
ShareAppend_InFront(acc, st) ==
    [successes |-> st.successes \o acc.successes,
     failures |-> st.failures \o acc.failures,
     calls |-> acc.calls \o st.calls]

\* The appends of one turn (lines 750, 758, 776 and 783).
ShareAppend(acc, st) ==
    [successes |-> acc.successes \o st.successes,
     failures |-> acc.failures \o st.failures,
     calls |-> acc.calls \o st.calls]

\* The loop of lines 742-788 from recipient i on.
RECURSIVE ShareLoop(_, _, _, _, _, _)
ShareLoop(spreadsheetID, sendNotification, recipients, replies, i, acc) ==
    IF i > Len(recipients) THEN acc
    ELSE ShareLoop(spreadsheetID, sendNotification, recipients, replies, i + 1,
                   ShareAppend(acc, ShareStep(spreadsheetID, sendNotification,
                                              recipients[i], replies[i])))

\* The entries of the response of lines 790-795 in the order respondWithJSON
\* writes them: json.MarshalIndent writes the keys of a map sorted, "failures"
\* before "successes".
MarshalledEntries(response) == response.failures \o response.successes

\* The outcome of handleShareSpreadsheet(request); createReplies[i] is the reply
\* of the Permissions.Create call issued for recipient i.
handleShareSpreadsheet(request, createReplies) ==
    LET a == getArgsFromRequest(request)
        args == a.args
        spreadsheetID == parseArgument(args, "spreadsheet_id", StringV(<<>>)).val
        sendNotification == parseArgument(args, "send_notification", BoolV(TRUE)).val
        recipients == UnmarshalStringMaps(args["recipients"])
        done == ShareLoop(spreadsheetID, sendNotification, recipients.val, createReplies, 1,
                          [successes |-> <<>>, failures |-> <<>>, calls |-> <<>>])
    IN  IF a.err # <<>> THEN Outcome(respondWithError(a.err), <<>>)
        ELSE IF spreadsheetID = <<>>
        THEN Outcome(respondWithError(<<"spreadsheet_id is required">>), <<>>)
        ELSE IF "recipients" \notin DOMAIN args
        THEN Outcome(respondWithError(<<"recipients is required">>), <<>>)
        ELSE IF recipients.err # <<>>
        THEN Outcome(respondWithError(<<"invalid recipients format">>), <<>>)
        ELSE Outcome(respondWithJSON([successes |-> done.successes,
                                      failures |-> done.failures]),
                     done.calls)

-----------------------------------------------------------------------------
(* handleGetMultipleSpreadsheetSummary, src/handlers.go:623 *)

\* Spreadsheets.Get(spreadsheetID).Fields(...) of lines 655-657.
SummaryGetCall(spreadsheetID) ==
    [api |-> "Spreadsheets.Get", spreadsheetID |-> spreadsheetID,
     fields |-> "properties.title,sheets(properties(title,sheetId))"]

\* max(1, int(parseArgument(args, "rows_to_fetch", float64(5))))
RowsToFetch(args) ==
    LET n == Int64OfFloat(parseArgument(args, "rows_to_fetch", FloatV(50)).val)
    IN  IF n > 1 THEN n ELSE 1

\* fmt.Sprintf("%s!A1:%d", sheetTitle, rowsToFetch)
RangeToGet(sheetTitle, rowsToFetch) ==
    sheetTitle \o <<"!", "A", "1", ":">> \o DecimalDigits(rowsToFetch)

\* Variant: a sheet without a title is read like any other sheet.
SheetStep_ReadUntitled(spreadsheetID, rowsToFetch, sheet, reply) ==
    LET fresh == [title |-> sheet.Title, sheet_id |-> sheet.SheetId, headers |-> <<>>,
                  first_rows |-> <<>>, error |-> NilV]
        call == ValuesGetCall(spreadsheetID, RangeToGet(sheet.Title, rowsToFetch))
    IN  IF reply.err # <<>>
        THEN [entry |-> [fresh EXCEPT !.error = StringV(<<"Error fetching data for sheet ">>
                                                    \o sheet.Title \o <<": ">> \o reply.err)],
              calls |-> <<call>>]
        ELSE [entry |-> [fresh EXCEPT
                            !.headers = IF Len(reply.Values) > 0 THEN reply.Values[1] ELSE @,
                            !.first_rows = IF Len(reply.Values) > 1 THEN Tail(reply.Values) ELSE @],
              calls |-> <<call>>]

\* One turn of the inner loop of lines 668-703: the sheet's summary and the
\* read issued for it; reply is the reply of that read.
SheetStep(spreadsheetID, rowsToFetch, sheet, reply) ==
    LET fresh == [title |-> sheet.Title, sheet_id |-> sheet.SheetId, headers |-> <<>>,
                  first_rows |-> <<>>, error |-> NilV]
        call == ValuesGetCall(spreadsheetID, RangeToGet(sheet.Title, rowsToFetch))
    IN  IF sheet.Title = <<>>
        THEN [entry |-> [fresh EXCEPT !.error = StringV(<<"Sheet title not found">>)],
              calls |-> <<>>]
        ELSE IF reply.err # <<>>
        THEN [entry |-> [fresh EXCEPT !.error = StringV(<<"Error fetching data for sheet ">>
                                                    \o sheet.Title \o <<": ">> \o reply.err)],
              calls |-> <<call>>]
        ELSE [entry |-> [fresh EXCEPT
                            !.headers = IF Len(reply.Values) > 0 THEN reply.Values[1] ELSE @,
                            !.first_rows = IF Len(reply.Values) > 1 THEN Tail(reply.Values) ELSE @],
              calls |-> <<call>>]

\* The inner loop of lines 668-703 from sheet j on.
RECURSIVE SheetLoop(_, _, _, _, _, _)
SheetLoop(spreadsheetID, rowsToFetch, sheets, replies, j, acc) ==
    IF j > Len(sheets) THEN acc
    ELSE LET st == SheetStep(spreadsheetID, rowsToFetch, sheets[j], replies[j])
         IN  SheetLoop(spreadsheetID, rowsToFetch, sheets, replies, j + 1,
                       [results |-> Append(acc.results, st.entry),
                        calls |-> acc.calls \o st.calls])

\* One turn of the outer loop of lines 647-707: the spreadsheet's summary (its
\* title and error are anys: nil or a string) and
\* the calls issued for it; getReply is the reply of the metadata fetch and
\* valuesReplies[j] the reply of the read of sheet j.
SummaryStep(spreadsheetID, rowsToFetch, getReply, valuesReplies) ==
    LET fresh == [spreadsheet_id |-> spreadsheetID, title |-> NilV, sheets |-> <<>>,
                  error |-> NilV]
        inner == SheetLoop(spreadsheetID, rowsToFetch, getReply.Sheets, valuesReplies, 1,
                           [results |-> <<>>, calls |-> <<>>])
    IN  IF getReply.err # <<>>
        THEN [entry |-> [fresh EXCEPT !.error = StringV(<<"Error fetching spreadsheet ">>
                                                    \o spreadsheetID \o <<": ">> \o getReply.err)],
              calls |-> <<SummaryGetCall(spreadsheetID)>>]
        ELSE [entry |-> [fresh EXCEPT !.title = StringV(getReply.Title), !.sheets = inner.results],
              calls |-> <<SummaryGetCall(spreadsheetID)>> \o inner.calls]

\* The outer loop of lines 647-707 from id i on.
RECURSIVE SummaryLoop(_, _, _, _, _, _)
SummaryLoop(spreadsheetIDs, rowsToFetch, getReplies, valuesReplies, i, acc) ==
    IF i > Len(spreadsheetIDs) THEN acc
    ELSE LET st == SummaryStep(spreadsheetIDs[i], rowsToFetch, getReplies[i], valuesReplies[i])
         IN  SummaryLoop(spreadsheetIDs, rowsToFetch, getReplies, valuesReplies, i + 1,
                         [results |-> Append(acc.results, st.entry),
                          calls |-> acc.calls \o st.calls])

\* The outcome of handleGetMultipleSpreadsheetSummary(request); getReplies[i]
\* is the reply of the metadata fetch of id i and valuesReplies[i][j] the reply
\* of the read of its sheet j.
handleGetMultipleSpreadsheetSummary(request, getReplies, valuesReplies) ==
    LET a == getArgsFromRequest(request)
        args == a.args
        spreadsheetIDs == UnmarshalStrings(args["spreadsheet_ids"])
        done == SummaryLoop(spreadsheetIDs.val, RowsToFetch(args), getReplies, valuesReplies, 1,
                            [results |-> <<>>, calls |-> <<>>])
    IN  IF a.err # <<>> THEN Outcome(respondWithError(a.err), <<>>)
        ELSE IF "spreadsheet_ids" \notin DOMAIN args
        THEN Outcome(respondWithError(<<"spreadsheet_ids is required">>), <<>>)
        ELSE IF spreadsheetIDs.err # <<>>
        THEN Outcome(respondWithError(<<"invalid spreadsheet_ids format">>), <<>>)
        ELSE Outcome(respondWithJSON(MapsV(done.results)), done.calls)

-----------------------------------------------------------------------------
(* handleGetSheetData and handleGetSheetFormulas, src/handlers.go:22 and :70 *)

\* fullRange := sheet; if rangeStr != "" { fullRange = fmt.Sprintf("%s!%s", sheet, rangeStr) }
SheetRange(sheet, rangeStr) ==
    IF rangeStr # <<>> THEN FullRange(sheet, rangeStr) ELSE sheet

\* The outcome of handleGetSheetData(request); getReply and valuesReply are the
\* replies of the remote calls, should the handler come to issue them.
handleGetSheetData(request, getReply, valuesReply) ==
    LET a == getArgsFromRequest(request)
        args == a.args
        spreadsheetID == parseArgument(args, "spreadsheet_id", StringV(<<>>)).val
        sheet == parseArgument(args, "sheet", StringV(<<>>)).val
        rangeStr == parseArgument(args, "range", StringV(<<>>)).val
        includeGridData == parseArgument(args, "include_grid_data", BoolV(FALSE)).val
        fullRange == SheetRange(sheet, rangeStr)
        gridCall == [api |-> "Spreadsheets.Get", spreadsheetID |-> spreadsheetID,
                     range |-> fullRange, includeGridData |-> TRUE]
    IN  IF a.err # <<>> THEN Outcome(respondWithError(a.err), <<>>)
        ELSE IF spreadsheetID = <<>> \/ sheet = <<>>
        THEN Outcome(respondWithError(<<"spreadsheet_id and sheet are required">>), <<>>)
        ELSE IF includeGridData
        THEN IF getReply.err # <<>>
             THEN Outcome(respondWithError(<<"failed to get sheet data">> \o getReply.err),
                          <<gridCall>>)
             ELSE Outcome(respondWithJSON([sheets |-> getReply.sheets]), <<gridCall>>)
        ELSE IF valuesReply.err # <<>>
        THEN Outcome(respondWithError(<<"failed to get sheet values">> \o valuesReply.err),
                     <<ValuesGetCall(spreadsheetID, fullRange)>>)
        ELSE Outcome(respondWithJSON(
                         [spreadsheetId |-> spreadsheetID,
                          valueRanges |-> <<[range |-> fullRange,
                                             values |-> valuesReply.Values]>>]),
                     <<ValuesGetCall(spreadsheetID, fullRange)>>)

\* The outcome of handleGetSheetFormulas(request).  The result is the [][]any
\* of the reply, handed over as an any.
handleGetSheetFormulas(request, valuesReply) ==
    LET a == getArgsFromRequest(request)
        args == a.args
        spreadsheetID == parseArgument(args, "spreadsheet_id", StringV(<<>>)).val
        sheet == parseArgument(args, "sheet", StringV(<<>>)).val
        rangeStr == parseArgument(args, "range", StringV(<<>>)).val
        call == [api |-> "Spreadsheets.Values.Get", spreadsheetID |-> spreadsheetID,
                 range |-> SheetRange(sheet, rangeStr), valueRenderOption |-> "FORMULA"]
    IN  IF a.err # <<>> THEN Outcome(respondWithError(a.err), <<>>)
        ELSE IF spreadsheetID = <<>> \/ sheet = <<>>
        THEN Outcome(respondWithError(<<"spreadsheet_id and sheet are required">>), <<>>)
        ELSE IF valuesReply.err # <<>>
        THEN Outcome(respondWithError(<<"failed to get formulas">> \o valuesReply.err), <<call>>)
        ELSE Outcome(respondWithJSON([type |-> "[][]any", val |-> valuesReply.Values]), <<call>>)

-----------------------------------------------------------------------------
(* handleUpdateCells, src/handlers.go:98, and convertToValues, :469 *)

\* The result ([][]any, error) of convertToValues(data): json.Unmarshal of the
\* marshalled data into [][]any accepts null and a list of lists (or nulls).
convertToValues(data) ==
    IF data.type = "nil" THEN [values |-> <<>>, err |-> <<>>]
    ELSE IF data.type # "[]any" THEN [values |-> <<>>, err |-> UnmarshalError]
    ELSE IF \E i \in 1..Len(data.val) : data.val[i].type \notin {"[]any", "nil"}
    THEN [values |-> <<>>, err |-> UnmarshalError]
    ELSE [values |-> [i \in 1..Len(data.val) |->
                         IF data.val[i].type = "nil" THEN <<>> ELSE data.val[i].val],
          err |-> <<>>]

\* The outcome of handleUpdateCells(request); updateReply is the reply of the
\* Spreadsheets.Values.Update call.
handleUpdateCells(request, updateReply) ==
    LET a == getArgsFromRequest(request)
        args == a.args
        spreadsheetID == parseArgument(args, "spreadsheet_id", StringV(<<>>)).val
        sheet == parseArgument(args, "sheet", StringV(<<>>)).val
        rangeStr == parseArgument(args, "range", StringV(<<>>)).val
        data == convertToValues(args["data"])
        call == [api |-> "Spreadsheets.Values.Update", spreadsheetID |-> spreadsheetID,
                 range |-> FullRange(sheet, rangeStr), values |-> data.values,
                 valueInputOption |-> "USER_ENTERED"]
    IN  IF a.err # <<>> THEN Outcome(respondWithError(a.err), <<>>)
        ELSE IF spreadsheetID = <<>> \/ sheet = <<>> \/ rangeStr = <<>>
        THEN Outcome(respondWithError(<<"spreadsheet_id, sheet, and range are required">>), <<>>)
        ELSE IF "data" \notin DOMAIN args
        THEN Outcome(respondWithError(<<"data is required">>), <<>>)
        ELSE IF data.err # <<>>
        THEN Outcome(respondWithError(<<"invalid data format">> \o data.err), <<>>)
        ELSE IF updateReply.err # <<>>
        THEN Outcome(respondWithError(<<"failed to update cells">> \o updateReply.err), <<call>>)
        ELSE Outcome(respondWithJSON(updateReply.result), <<call>>)

-----------------------------------------------------------------------------
(* handleBatchUpdateCells, src/handlers.go:137 *)

\* The loop of lines 159-170 over the map ranges.  Go visits the keys of a map
\* in an order of its own choosing: order is the order this run visits them in.
\* The result is the value ranges appended so far and the error of the first
\* key visited whose values do not convert.  A key of the map is kept as one
\* piece of the strings it is formatted into.
RECURSIVE RangesLoop(_, _, _, _, _)
RangesLoop(rangesMap, sheet, order, i, valueRanges) ==
    IF i > Len(order) THEN [valueRanges |-> valueRanges, err |-> <<>>]
    ELSE LET rangeStr == order[i]
             converted == convertToValues(rangesMap[rangeStr])
         IN  IF converted.err # <<>>
             THEN [valueRanges |-> valueRanges,
                   err |-> <<"invalid data format for range", rangeStr>> \o converted.err]
             ELSE RangesLoop(rangesMap, sheet, order, i + 1,
                             Append(valueRanges,
                                    [Range |-> FullRange(sheet, <<rangeStr>>),
                                     Values |-> converted.values]))

\* Variant: the ranges converted before the bad one are written all the same.
handleBatchUpdateCells_WritesConverted(request, order, updateReply) ==
    LET a == getArgsFromRequest(request)
        args == a.args
        spreadsheetID == parseArgument(args, "spreadsheet_id", StringV(<<>>)).val
        sheet == parseArgument(args, "sheet", StringV(<<>>)).val
        loop == RangesLoop(args["ranges"].val, sheet, order, 1, <<>>)
        call == [api |-> "Spreadsheets.Values.BatchUpdate", spreadsheetID |-> spreadsheetID,
                 valueInputOption |-> "USER_ENTERED", data |-> loop.valueRanges]
    IN  IF a.err # <<>> THEN Outcome(respondWithError(a.err), <<>>)
        ELSE IF spreadsheetID = <<>> \/ sheet = <<>>
        THEN Outcome(respondWithError(<<"spreadsheet_id and sheet are required">>), <<>>)
        ELSE IF "ranges" \notin DOMAIN args
        THEN Outcome(respondWithError(<<"ranges is required">>), <<>>)
        ELSE IF args["ranges"].type # "map[string]any"
        THEN Outcome(respondWithError(<<"ranges must be an object/map">>), <<>>)
        ELSE IF loop.err # <<>> THEN Outcome(respondWithError(loop.err), <<call>>)
        ELSE IF updateReply.err # <<>>
        THEN Outcome(respondWithError(<<"failed to batch update cells">> \o updateReply.err),
                     <<call>>)
        ELSE Outcome(respondWithJSON(updateReply.result), <<call>>)

\* The outcome of handleBatchUpdateCells(request) in a run that visits the keys
\* of ranges in the order order; updateReply is the reply of the
\* Spreadsheets.Values.BatchUpdate call.
handleBatchUpdateCells(request, order, updateReply) ==
    LET a == getArgsFromRequest(request)
        args == a.args
        spreadsheetID == parseArgument(args, "spreadsheet_id", StringV(<<>>)).val
        sheet == parseArgument(args, "sheet", StringV(<<>>)).val
        loop == RangesLoop(args["ranges"].val, sheet, order, 1, <<>>)
        call == [api |-> "Spreadsheets.Values.BatchUpdate", spreadsheetID |-> spreadsheetID,
                 valueInputOption |-> "USER_ENTERED", data |-> loop.valueRanges]
    IN  IF a.err # <<>> THEN Outcome(respondWithError(a.err), <<>>)
        ELSE IF spreadsheetID = <<>> \/ sheet = <<>>
        THEN Outcome(respondWithError(<<"spreadsheet_id and sheet are required">>), <<>>)
        ELSE IF "ranges" \notin DOMAIN args
        THEN Outcome(respondWithError(<<"ranges is required">>), <<>>)
        ELSE IF args["ranges"].type # "map[string]any"
        THEN Outcome(respondWithError(<<"ranges must be an object/map">>), <<>>)
        ELSE IF loop.err # <<>> THEN Outcome(respondWithError(loop.err), <<>>)
        ELSE IF updateReply.err # <<>>
        THEN Outcome(respondWithError(<<"failed to batch update cells">> \o updateReply.err),
                     <<call>>)
        ELSE Outcome(respondWithJSON(updateReply.result), <<call>>)

-----------------------------------------------------------------------------
(* handleAddRows, src/handlers.go:186 *)

\* The outcome of handleAddRows(request).
handleAddRows(request, getReply, batchReply) ==
    LET a == getArgsFromRequest(request)
        args == a.args
        spreadsheetID == parseArgument(args, "spreadsheet_id", StringV(<<>>)).val
        sheet == parseArgument(args, "sheet", StringV(<<>>)).val
        count == Int64OfFloat(parseArgument(args, "count", FloatV(0)).val)
        id == getSheetID(spreadsheetID, sheet, getReply)
        startRow == IF "start_row" \in DOMAIN args
                    THEN Int64OfFloat(parseArgument(args, "start_row", FloatV(0)).val)
                    ELSE 0
        requests == <<[InsertDimension |->
                         [Range |-> [SheetId |-> id.sheetID, Dimension |-> "ROWS",
                                     StartIndex |-> startRow, EndIndex |-> startRow + count],
                          InheritFromBefore |-> startRow > 0]]>>
    IN  IF a.err # <<>> THEN Outcome(respondWithError(a.err), <<>>)
        ELSE IF spreadsheetID = <<>> \/ sheet = <<>> \/ count <= 0
        THEN Outcome(respondWithError(<<"spreadsheet_id, sheet, and count are required">>), <<>>)
        ELSE IF id.err # <<>>
        THEN Outcome(respondWithError(<<"failed to get sheet ID">> \o id.err),
                     <<GetCall(spreadsheetID)>>)
        ELSE IF batchReply.err # <<>>
        THEN Outcome(respondWithError(<<"failed to add rows">> \o batchReply.err),
                     <<GetCall(spreadsheetID), BatchUpdateCall(spreadsheetID, requests)>>)
        ELSE Outcome(respondWithJSON(batchReply.result),
                     <<GetCall(spreadsheetID), BatchUpdateCall(spreadsheetID, requests)>>)

-----------------------------------------------------------------------------
(* handleAddColumns, src/handlers.go:235 *)

\* Variant: the end index is the count, whatever the start.
handleAddColumns_EndIsCount(request, getReply, batchReply) ==
    LET a == getArgsFromRequest(request)
        args == a.args
        spreadsheetID == parseArgument(args, "spreadsheet_id", StringV(<<>>)).val
        sheet == parseArgument(args, "sheet", StringV(<<>>)).val
        count == Int64OfFloat(parseArgument(args, "count", FloatV(0)).val)
        id == getSheetID(spreadsheetID, sheet, getReply)
        startColumn == IF "start_column" \in DOMAIN args
                       THEN Int64OfFloat(parseArgument(args, "start_column", FloatV(0)).val)
                       ELSE 0
        requests == <<[InsertDimension |->
                         [Range |-> [SheetId |-> id.sheetID, Dimension |-> "COLUMNS",
                                     StartIndex |-> startColumn,
                                     EndIndex |-> count],
                          InheritFromBefore |-> startColumn > 0]]>>
    IN  IF a.err # <<>> THEN Outcome(respondWithError(a.err), <<>>)
        ELSE IF spreadsheetID = <<>> \/ sheet = <<>> \/ count <= 0
        THEN Outcome(respondWithError(<<"spreadsheet_id, sheet, and count are required">>), <<>>)
        ELSE IF id.err # <<>>
        THEN Outcome(respondWithError(<<"failed to get sheet ID">> \o id.err),
                     <<GetCall(spreadsheetID)>>)
        ELSE IF batchReply.err # <<>>
        THEN Outcome(respondWithError(<<"failed to add columns">> \o batchReply.err),
                     <<GetCall(spreadsheetID), BatchUpdateCall(spreadsheetID, requests)>>)
        ELSE Outcome(respondWithJSON(batchReply.result),
                     <<GetCall(spreadsheetID), BatchUpdateCall(spreadsheetID, requests)>>)

\* The outcome of handleAddColumns(request).
handleAddColumns(request, getReply, batchReply) ==
    LET a == getArgsFromRequest(request)
        args == a.args
        spreadsheetID == parseArgument(args, "spreadsheet_id", StringV(<<>>)).val
        sheet == parseArgument(args, "sheet", StringV(<<>>)).val
        count == Int64OfFloat(parseArgument(args, "count", FloatV(0)).val)
        id == getSheetID(spreadsheetID, sheet, getReply)
        startColumn == IF "start_column" \in DOMAIN args
                       THEN Int64OfFloat(parseArgument(args, "start_column", FloatV(0)).val)
                       ELSE 0
        requests == <<[InsertDimension |->
                         [Range |-> [SheetId |-> id.sheetID, Dimension |-> "COLUMNS",
                                     StartIndex |-> startColumn,
                                     EndIndex |-> startColumn + count],
                          InheritFromBefore |-> startColumn > 0]]>>
    IN  IF a.err # <<>> THEN Outcome(respondWithError(a.err), <<>>)
        ELSE IF spreadsheetID = <<>> \/ sheet = <<>> \/ count <= 0
        THEN Outcome(respondWithError(<<"spreadsheet_id, sheet, and count are required">>), <<>>)
        ELSE IF id.err # <<>>
        THEN Outcome(respondWithError(<<"failed to get sheet ID">> \o id.err),
                     <<GetCall(spreadsheetID)>>)
        ELSE IF batchReply.err # <<>>
        THEN Outcome(respondWithError(<<"failed to add columns">> \o batchReply.err),
                     <<GetCall(spreadsheetID), BatchUpdateCall(spreadsheetID, requests)>>)
        ELSE Outcome(respondWithJSON(batchReply.result),
                     <<GetCall(spreadsheetID), BatchUpdateCall(spreadsheetID, requests)>>)

-----------------------------------------------------------------------------
(* handleCopySheet, src/handlers.go:353, and handleRenameSheet, :412 *)

\* The UpdateSheetProperties request that gives sheet sheetID the title.
RenameRequest(sheetID, title) ==
    [UpdateSheetProperties |->
        [Properties |-> [SheetId |-> sheetID, Title |-> title], Fields |-> "title"]]

CopyToCall(spreadsheetID, sheetID, destination) ==
    [api |-> "Spreadsheets.Sheets.CopyTo", spreadsheetID |-> spreadsheetID,
     sheetID |-> sheetID, destinationSpreadsheetId |-> destination]

\* Variant: the copy is renamed whatever title it came with.
handleCopySheet_AlwaysRename(request, getReply, copyReply, batchReply) ==
    LET a == getArgsFromRequest(request)
        args == a.args
        srcSpreadsheet == parseArgument(args, "src_spreadsheet", StringV(<<>>)).val
        srcSheet == parseArgument(args, "src_sheet", StringV(<<>>)).val
        dstSpreadsheet == parseArgument(args, "dst_spreadsheet", StringV(<<>>)).val
        dstSheet == parseArgument(args, "dst_sheet", StringV(<<>>)).val
        id == getSheetID(srcSpreadsheet, srcSheet, getReply)
        lookup == GetCall(srcSpreadsheet)
        copy == CopyToCall(srcSpreadsheet, id.sheetID, dstSpreadsheet)
        rename == BatchUpdateCall(dstSpreadsheet,
                                  <<RenameRequest(copyReply.result.SheetId, dstSheet)>>)
    IN  IF a.err # <<>> THEN Outcome(respondWithError(a.err), <<>>)
        ELSE IF srcSpreadsheet = <<>> \/ srcSheet = <<>> \/ dstSpreadsheet = <<>> \/ dstSheet = <<>>
        THEN Outcome(respondWithError(
                 <<"src_spreadsheet, src_sheet, dst_spreadsheet, and dst_sheet are required">>),
                 <<>>)
        ELSE IF id.err # <<>>
        THEN Outcome(respondWithError(<<"failed to get source sheet ID">> \o id.err), <<lookup>>)
        ELSE IF copyReply.err # <<>>
        THEN Outcome(respondWithError(<<"failed to copy sheet">> \o copyReply.err),
                     <<lookup, copy>>)
        ELSE IF batchReply.err # <<>>
        THEN Outcome(respondWithError(<<"failed to rename copied sheet">> \o batchReply.err),
                     <<lookup, copy, rename>>)
        ELSE Outcome(respondWithJSON([copy |-> copyReply.result, rename |-> batchReply.result]),
                     <<lookup, copy, rename>>)

\* Variant: a failed rename is reported next to the result of the copy.
handleCopySheet_CopyKeptOnRenameError(request, getReply, copyReply, batchReply) ==
    LET a == getArgsFromRequest(request)
        args == a.args
        srcSpreadsheet == parseArgument(args, "src_spreadsheet", StringV(<<>>)).val
        srcSheet == parseArgument(args, "src_sheet", StringV(<<>>)).val
        dstSpreadsheet == parseArgument(args, "dst_spreadsheet", StringV(<<>>)).val
        dstSheet == parseArgument(args, "dst_sheet", StringV(<<>>)).val
        id == getSheetID(srcSpreadsheet, srcSheet, getReply)
        lookup == GetCall(srcSpreadsheet)
        copy == CopyToCall(srcSpreadsheet, id.sheetID, dstSpreadsheet)
        rename == BatchUpdateCall(dstSpreadsheet,
                                  <<RenameRequest(copyReply.result.SheetId, dstSheet)>>)
    IN  IF a.err # <<>> THEN Outcome(respondWithError(a.err), <<>>)
        ELSE IF srcSpreadsheet = <<>> \/ srcSheet = <<>> \/ dstSpreadsheet = <<>> \/ dstSheet = <<>>
        THEN Outcome(respondWithError(
                 <<"src_spreadsheet, src_sheet, dst_spreadsheet, and dst_sheet are required">>),
                 <<>>)
        ELSE IF id.err # <<>>
        THEN Outcome(respondWithError(<<"failed to get source sheet ID">> \o id.err), <<lookup>>)
        ELSE IF copyReply.err # <<>>
        THEN Outcome(respondWithError(<<"failed to copy sheet">> \o copyReply.err),
                     <<lookup, copy>>)
        ELSE IF copyReply.result.Title = dstSheet
        THEN Outcome(respondWithJSON([copy |-> copyReply.result]), <<lookup, copy>>)
        ELSE IF batchReply.err # <<>>
        THEN Outcome(respondWithJSON([copy |-> copyReply.result,
                                      error |-> <<"failed to rename copied sheet">>
                                                    \o batchReply.err]),
                     <<lookup, copy, rename>>)
        ELSE Outcome(respondWithJSON([copy |-> copyReply.result, rename |-> batchReply.result]),
                     <<lookup, copy, rename>>)

\* The outcome of handleCopySheet(request); getReply, copyReply and batchReply
\* are the replies of the sheet-id lookup, of the copy and of the rename.
handleCopySheet(request, getReply, copyReply, batchReply) ==
    LET a == getArgsFromRequest(request)
        args == a.args
        srcSpreadsheet == parseArgument(args, "src_spreadsheet", StringV(<<>>)).val
        srcSheet == parseArgument(args, "src_sheet", StringV(<<>>)).val
        dstSpreadsheet == parseArgument(args, "dst_spreadsheet", StringV(<<>>)).val
        dstSheet == parseArgument(args, "dst_sheet", StringV(<<>>)).val
        id == getSheetID(srcSpreadsheet, srcSheet, getReply)
        lookup == GetCall(srcSpreadsheet)
        copy == CopyToCall(srcSpreadsheet, id.sheetID, dstSpreadsheet)
        rename == BatchUpdateCall(dstSpreadsheet,
                                  <<RenameRequest(copyReply.result.SheetId, dstSheet)>>)
    IN  IF a.err # <<>> THEN Outcome(respondWithError(a.err), <<>>)
        ELSE IF srcSpreadsheet = <<>> \/ srcSheet = <<>> \/ dstSpreadsheet = <<>> \/ dstSheet = <<>>
        THEN Outcome(respondWithError(
                 <<"src_spreadsheet, src_sheet, dst_spreadsheet, and dst_sheet are required">>),
                 <<>>)
        ELSE IF id.err # <<>>
        THEN Outcome(respondWithError(<<"failed to get source sheet ID">> \o id.err), <<lookup>>)
        ELSE IF copyReply.err # <<>>
        THEN Outcome(respondWithError(<<"failed to copy sheet">> \o copyReply.err),
                     <<lookup, copy>>)
        ELSE IF copyReply.result.Title = dstSheet
        THEN Outcome(respondWithJSON([copy |-> copyReply.result]), <<lookup, copy>>)
        ELSE IF batchReply.err # <<>>
        THEN Outcome(respondWithError(<<"failed to rename copied sheet">> \o batchReply.err),
                     <<lookup, copy, rename>>)
        ELSE Outcome(respondWithJSON([copy |-> copyReply.result, rename |-> batchReply.result]),
                     <<lookup, copy, rename>>)

\* Variant: a failed sheet-id lookup is passed over and the rename is sent.
handleRenameSheet_LookupErrorIgnored(request, getReply, batchReply) ==
    LET a == getArgsFromRequest(request)
        args == a.args
        spreadsheet == parseArgument(args, "spreadsheet", StringV(<<>>)).val
        sheet == parseArgument(args, "sheet", StringV(<<>>)).val
        newName == parseArgument(args, "new_name", StringV(<<>>)).val
        id == getSheetID(spreadsheet, sheet, getReply)
        requests == <<RenameRequest(id.sheetID, newName)>>
    IN  IF a.err # <<>> THEN Outcome(respondWithError(a.err), <<>>)
        ELSE IF spreadsheet = <<>> \/ sheet = <<>> \/ newName = <<>>
        THEN Outcome(respondWithError(<<"spreadsheet, sheet, and new_name are required">>), <<>>)
        ELSE IF batchReply.err # <<>>
        THEN Outcome(respondWithError(<<"failed to rename sheet">> \o batchReply.err),
                     <<GetCall(spreadsheet), BatchUpdateCall(spreadsheet, requests)>>)
        ELSE Outcome(respondWithJSON(batchReply.result),
                     <<GetCall(spreadsheet), BatchUpdateCall(spreadsheet, requests)>>)

\* The outcome of handleRenameSheet(request).
handleRenameSheet(request, getReply, batchReply) ==
    LET a == getArgsFromRequest(request)
        args == a.args
        spreadsheet == parseArgument(args, "spreadsheet", StringV(<<>>)).val
        sheet == parseArgument(args, "sheet", StringV(<<>>)).val
        newName == parseArgument(args, "new_name", StringV(<<>>)).val
        id == getSheetID(spreadsheet, sheet, getReply)
        requests == <<RenameRequest(id.sheetID, newName)>>
    IN  IF a.err # <<>> THEN Outcome(respondWithError(a.err), <<>>)
        ELSE IF spreadsheet = <<>> \/ sheet = <<>> \/ newName = <<>>
        THEN Outcome(respondWithError(<<"spreadsheet, sheet, and new_name are required">>), <<>>)
        ELSE IF id.err # <<>>
        THEN Outcome(respondWithError(<<"failed to get sheet ID">> \o id.err),
                     <<GetCall(spreadsheet)>>)
        ELSE IF batchReply.err # <<>>
        THEN Outcome(respondWithError(<<"failed to rename sheet">> \o batchReply.err),
                     <<GetCall(spreadsheet), BatchUpdateCall(spreadsheet, requests)>>)
        ELSE Outcome(respondWithJSON(batchReply.result),
                     <<GetCall(spreadsheet), BatchUpdateCall(spreadsheet, requests)>>)

-----------------------------------------------------------------------------
(* handleFindReplace, src/handlers.go:990 *)

\* The FindReplaceRequest of lines 1006-1014; SheetId keeps its zero value
\* until line 1025 sets it.
FindReplaceRequest(args) ==
    [Find |-> parseArgument(args, "find", StringV(<<>>)).val,
     Replacement |-> parseArgument(args, "replacement", StringV(<<>>)).val,
     AllSheets |-> parseArgument(args, "all_sheets", BoolV(FALSE)).val,
     MatchCase |-> parseArgument(args, "match_case", BoolV(FALSE)).val,
     MatchEntireCell |-> parseArgument(args, "match_entire_cell", BoolV(FALSE)).val,
     SearchByRegex |-> FALSE,
     IncludeFormulas |-> TRUE,
     SheetId |-> 0]

\* Variant: the sheet is resolved in the all-sheets mode too.
handleFindReplace_AlwaysResolve(request, getReply, batchReply) ==
    LET a == getArgsFromRequest(request)
        args == a.args
        spreadsheetID == parseArgument(args, "spreadsheet_id", StringV(<<>>)).val
        find == parseArgument(args, "find", StringV(<<>>)).val
        sheet == parseArgument(args, "sheet", StringV(<<>>)).val
        id == getSheetID(spreadsheetID, sheet, getReply)
        scoped == <<[FindReplace |-> [FindReplaceRequest(args) EXCEPT !.SheetId = id.sheetID]]>>
    IN  IF a.err # <<>> THEN Outcome(respondWithError(a.err), <<>>)
        ELSE IF spreadsheetID = <<>> \/ find = <<>>
        THEN Outcome(respondWithError(<<"spreadsheet_id and find are required">>), <<>>)
        ELSE IF sheet = <<>>
        THEN Outcome(respondWithError(<<"sheet is required when all_sheets is false">>), <<>>)
        ELSE IF id.err # <<>>
        THEN Outcome(respondWithError(<<"failed to get sheet ID">> \o id.err),
                     <<GetCall(spreadsheetID)>>)
        ELSE IF batchReply.err # <<>>
        THEN Outcome(respondWithError(<<"failed to find and replace">> \o batchReply.err),
                     <<GetCall(spreadsheetID), BatchUpdateCall(spreadsheetID, scoped)>>)
        ELSE Outcome(respondWithJSON(batchReply.result),
                     <<GetCall(spreadsheetID), BatchUpdateCall(spreadsheetID, scoped)>>)

\* The outcome of handleFindReplace(request).
handleFindReplace(request, getReply, batchReply) ==
    LET a == getArgsFromRequest(request)
        args == a.args
        spreadsheetID == parseArgument(args, "spreadsheet_id", StringV(<<>>)).val
        find == parseArgument(args, "find", StringV(<<>>)).val
        allSheets == parseArgument(args, "all_sheets", BoolV(FALSE)).val
        sheet == parseArgument(args, "sheet", StringV(<<>>)).val
        id == getSheetID(spreadsheetID, sheet, getReply)
        everywhere == <<[FindReplace |-> FindReplaceRequest(args)]>>
        scoped == <<[FindReplace |-> [FindReplaceRequest(args) EXCEPT !.SheetId = id.sheetID]]>>
    IN  IF a.err # <<>> THEN Outcome(respondWithError(a.err), <<>>)
        ELSE IF spreadsheetID = <<>> \/ find = <<>>
        THEN Outcome(respondWithError(<<"spreadsheet_id and find are required">>), <<>>)
        ELSE IF allSheets
        THEN IF batchReply.err # <<>>
             THEN Outcome(respondWithError(<<"failed to find and replace">> \o batchReply.err),
                          <<BatchUpdateCall(spreadsheetID, everywhere)>>)
             ELSE Outcome(respondWithJSON(batchReply.result),
                          <<BatchUpdateCall(spreadsheetID, everywhere)>>)
        ELSE IF sheet = <<>>
        THEN Outcome(respondWithError(<<"sheet is required when all_sheets is false">>), <<>>)
        ELSE IF id.err # <<>>
        THEN Outcome(respondWithError(<<"failed to get sheet ID">> \o id.err),
                     <<GetCall(spreadsheetID)>>)
        ELSE IF batchReply.err # <<>>
        THEN Outcome(respondWithError(<<"failed to find and replace">> \o batchReply.err),
                     <<GetCall(spreadsheetID), BatchUpdateCall(spreadsheetID, scoped)>>)
        ELSE Outcome(respondWithJSON(batchReply.result),
                     <<GetCall(spreadsheetID), BatchUpdateCall(spreadsheetID, scoped)>>)

-----------------------------------------------------------------------------
(* handleSortRange, src/handlers.go:1046, and getSortOrder, :1525 *)

\* Variant: the two orders are swapped.
getSortOrder_Swapped(ascending) == IF ascending THEN "DESCENDING" ELSE "ASCENDING"

getSortOrder(ascending) == IF ascending THEN "ASCENDING" ELSE "DESCENDING"

\* The outcome of handleSortRange(request).
handleSortRange(request, getReply, batchReply) ==
    LET a == getArgsFromRequest(request)
        args == a.args
        spreadsheetID == parseArgument(args, "spreadsheet_id", StringV(<<>>)).val
        sheet == parseArgument(args, "sheet", StringV(<<>>)).val
        rangeStr == parseArgument(args, "range", StringV(<<>>)).val
        sortColumn == Int64OfFloat(parseArgument(args, "sort_column", FloatV(0)).val)
        ascending == parseArgument(args, "ascending", BoolV(TRUE)).val
        id == getSheetID(spreadsheetID, sheet, getReply)
        grid == parseGridRange(id.sheetID, rangeStr)
        requests == <<[SortRange |->
                         [Range |-> grid.gridRange,
                          SortSpecs |-> <<[DimensionIndex |-> sortColumn,
                                           SortOrder |-> getSortOrder(ascending)]>>]]>>
    IN  IF a.err # <<>> THEN Outcome(respondWithError(a.err), <<>>)
        ELSE IF spreadsheetID = <<>> \/ sheet = <<>> \/ rangeStr = <<>>
        THEN Outcome(respondWithError(<<"spreadsheet_id, sheet, and range are required">>), <<>>)
        ELSE IF id.err # <<>>
        THEN Outcome(respondWithError(<<"failed to get sheet ID">> \o id.err),
                     <<GetCall(spreadsheetID)>>)
        ELSE IF grid.err # <<>>
        THEN Outcome(respondWithError(<<"invalid range format">> \o grid.err),
                     <<GetCall(spreadsheetID)>>)
        ELSE IF batchReply.err # <<>>
        THEN Outcome(respondWithError(<<"failed to sort range">> \o batchReply.err),
                     <<GetCall(spreadsheetID), BatchUpdateCall(spreadsheetID, requests)>>)
        ELSE Outcome(respondWithJSON(batchReply.result),
                     <<GetCall(spreadsheetID), BatchUpdateCall(spreadsheetID, requests)>>)

-----------------------------------------------------------------------------
(* handleMergeCells, src/handlers.go:1192, and handleUnmergeCells, :1237 *)

\* Variant: the range is parsed before the sheet id is looked up.
handleMergeCells_ParseFirst(request, getReply, batchReply) ==
    LET a == getArgsFromRequest(request)
        args == a.args
        spreadsheetID == parseArgument(args, "spreadsheet_id", StringV(<<>>)).val
        sheet == parseArgument(args, "sheet", StringV(<<>>)).val
        rangeStr == parseArgument(args, "range", StringV(<<>>)).val
        mergeType == parseArgument(args, "merge_type",
                                   StringV(<<"M", "E", "R", "G", "E", "_", "A", "L", "L">>)).val
        id == getSheetID(spreadsheetID, sheet, getReply)
        grid == parseGridRange(id.sheetID, rangeStr)
        requests == <<[MergeCells |-> [Range |-> grid.gridRange, MergeType |-> mergeType]]>>
    IN  IF a.err # <<>> THEN Outcome(respondWithError(a.err), <<>>)
        ELSE IF spreadsheetID = <<>> \/ sheet = <<>> \/ rangeStr = <<>>
        THEN Outcome(respondWithError(<<"spreadsheet_id, sheet, and range are required">>), <<>>)
        ELSE IF parseGridRange(0, rangeStr).err # <<>>
        THEN Outcome(respondWithError(<<"invalid range format">>
                                        \o parseGridRange(0, rangeStr).err), <<>>)
        ELSE IF id.err # <<>>
        THEN Outcome(respondWithError(<<"failed to get sheet ID">> \o id.err),
                     <<GetCall(spreadsheetID)>>)
        ELSE IF batchReply.err # <<>>
        THEN Outcome(respondWithError(<<"failed to merge cells">> \o batchReply.err),
                     <<GetCall(spreadsheetID), BatchUpdateCall(spreadsheetID, requests)>>)
        ELSE Outcome(respondWithJSON(batchReply.result),
                     <<GetCall(spreadsheetID), BatchUpdateCall(spreadsheetID, requests)>>)

\* The outcome of handleMergeCells(request).
handleMergeCells(request, getReply, batchReply) ==
    LET a == getArgsFromRequest(request)
        args == a.args
        spreadsheetID == parseArgument(args, "spreadsheet_id", StringV(<<>>)).val
        sheet == parseArgument(args, "sheet", StringV(<<>>)).val
        rangeStr == parseArgument(args, "range", StringV(<<>>)).val
        mergeType == parseArgument(args, "merge_type",
                                   StringV(<<"M", "E", "R", "G", "E", "_", "A", "L", "L">>)).val
        id == getSheetID(spreadsheetID, sheet, getReply)
        grid == parseGridRange(id.sheetID, rangeStr)
        requests == <<[MergeCells |-> [Range |-> grid.gridRange, MergeType |-> mergeType]]>>
    IN  IF a.err # <<>> THEN Outcome(respondWithError(a.err), <<>>)
        ELSE IF spreadsheetID = <<>> \/ sheet = <<>> \/ rangeStr = <<>>
        THEN Outcome(respondWithError(<<"spreadsheet_id, sheet, and range are required">>), <<>>)
        ELSE IF id.err # <<>>
        THEN Outcome(respondWithError(<<"failed to get sheet ID">> \o id.err),
                     <<GetCall(spreadsheetID)>>)
        ELSE IF grid.err # <<>>
        THEN Outcome(respondWithError(<<"invalid range format">> \o grid.err),
                     <<GetCall(spreadsheetID)>>)
        ELSE IF batchReply.err # <<>>
        THEN Outcome(respondWithError(<<"failed to merge cells">> \o batchReply.err),
                     <<GetCall(spreadsheetID), BatchUpdateCall(spreadsheetID, requests)>>)
        ELSE Outcome(respondWithJSON(batchReply.result),
                     <<GetCall(spreadsheetID), BatchUpdateCall(spreadsheetID, requests)>>)

\* The outcome of handleUnmergeCells(request).
handleUnmergeCells(request, getReply, batchReply) ==
    LET a == getArgsFromRequest(request)
        args == a.args
        spreadsheetID == parseArgument(args, "spreadsheet_id", StringV(<<>>)).val
        sheet == parseArgument(args, "sheet", StringV(<<>>)).val
        rangeStr == parseArgument(args, "range", StringV(<<>>)).val
        id == getSheetID(spreadsheetID, sheet, getReply)
        grid == parseGridRange(id.sheetID, rangeStr)
        requests == <<[UnmergeCells |-> [Range |-> grid.gridRange]]>>
    IN  IF a.err # <<>> THEN Outcome(respondWithError(a.err), <<>>)
        ELSE IF spreadsheetID = <<>> \/ sheet = <<>> \/ rangeStr = <<>>
        THEN Outcome(respondWithError(<<"spreadsheet_id, sheet, and range are required">>), <<>>)
        ELSE IF id.err # <<>>
        THEN Outcome(respondWithError(<<"failed to get sheet ID">> \o id.err),
                     <<GetCall(spreadsheetID)>>)
        ELSE IF grid.err # <<>>
        THEN Outcome(respondWithError(<<"invalid range format">> \o grid.err),
                     <<GetCall(spreadsheetID)>>)
        ELSE IF batchReply.err # <<>>
        THEN Outcome(respondWithError(<<"failed to unmerge cells">> \o batchReply.err),
                     <<GetCall(spreadsheetID), BatchUpdateCall(spreadsheetID, requests)>>)
        ELSE Outcome(respondWithJSON(batchReply.result),
                     <<GetCall(spreadsheetID), BatchUpdateCall(spreadsheetID, requests)>>)

-----------------------------------------------------------------------------
(* handleExportSpreadsheet, src/handlers.go:1412 *)

\* Variant: tsv is exported as csv.
ExportMimeType_TsvAsCsv(format) ==
    CASE format = <<"c", "s", "v">> -> <<"text/csv">>
      [] format = <<"p", "d", "f">> -> <<"application/pdf">>
      [] format = <<"x", "l", "s", "x">> -> <<"application/vnd.openxmlformats-officedocument.spreadsheetml.sheet">>
      [] format = <<"o", "d", "s">> -> <<"application/vnd.oasis.opendocument.spreadsheet">>
      [] format = <<"t", "s", "v">> -> <<"text/csv">>
      [] OTHER -> <<>>

\* The switch of lines 1426-1438: the mime type of the format (one piece, the
\* literal of the code), "" when the switch takes its default branch.
ExportMimeType(format) ==
    CASE format = <<"c", "s", "v">> -> <<"text/csv">>
      [] format = <<"p", "d", "f">> -> <<"application/pdf">>
      [] format = <<"x", "l", "s", "x">> -> <<"application/vnd.openxmlformats-officedocument.spreadsheetml.sheet">>
      [] format = <<"o", "d", "s">> -> <<"application/vnd.oasis.opendocument.spreadsheet">>
      [] format = <<"t", "s", "v">> -> <<"text/tab-separated-values">>
      [] OTHER -> <<>>

\* The outcome of handleExportSpreadsheet(request); exportReply is the reply of
\* the Files.Export download.
handleExportSpreadsheet(request, exportReply) ==
    LET a == getArgsFromRequest(request)
        args == a.args
        spreadsheetID == parseArgument(args, "spreadsheet_id", StringV(<<>>)).val
        format == parseArgument(args, "format", StringV(<<"c", "s", "v">>)).val
        mimeType == ExportMimeType(format)
        call == [api |-> "Files.Export", fileID |-> spreadsheetID, mimeType |-> mimeType]
    IN  IF a.err # <<>> THEN Outcome(respondWithError(a.err), <<>>)
        ELSE IF spreadsheetID = <<>>
        THEN Outcome(respondWithError(<<"spreadsheet_id is required">>), <<>>)
        ELSE IF mimeType = <<>>
        THEN Outcome(respondWithError(<<"unsupported format: ">> \o format
                                          \o <<" (supported: csv, pdf, xlsx, ods, tsv)">>),
                     <<>>)
        ELSE IF exportReply.err # <<>>
        THEN Outcome(respondWithError(<<"failed to export spreadsheet">> \o exportReply.err),
                     <<call>>)
        ELSE Outcome(respondWithJSON(
                         [success |-> TRUE, spreadsheetId |-> spreadsheetID, format |-> format,
                          mimeType |-> mimeType,
                          message |-> <<"Export successful. Use Drive API to download the file programmatically.">>]),
                     <<call>>)

-----------------------------------------------------------------------------
(* handleGetSpreadsheetInfo, src/handlers.go:798 *)

\* The outcome of handleGetSpreadsheetInfo(request) for request.Params.URI =
\* uri: the response is the pair ([]mcp.ResourceContents, error) the resource
\* handler returns.  The text of the content is the indented JSON document of
\* info, kept as the value it encodes.
handleGetSpreadsheetInfo(uri, getReply) ==
    LET parts == SplitOn(uri, <<":", "/", "/">>)
        pathParts == Split(parts[2], "/")
        spreadsheetID == pathParts[1]
        info == [Title |-> getReply.title,
                 Sheets |-> [i \in 1..Len(getReply.sheets) |->
                                [Title |-> getReply.sheets[i].Title,
                                 SheetID |-> getReply.sheets[i].SheetId,
                                 GridProperties |-> getReply.sheets[i].GridProperties]]]
        content == [URI |-> uri, MIMEType |-> "application/json",
                    Text |-> [json |-> info, indent |-> <<" ", " ">>]]
    IN  IF Len(parts) # 2
        THEN Outcome([contents |-> <<>>, err |-> <<"invalid URI format">>], <<>>)
        ELSE IF Len(pathParts) < 1
        THEN Outcome([contents |-> <<>>,
                      err |-> <<"invalid URI format: missing spreadsheet_id">>], <<>>)
        ELSE IF getReply.err # <<>>
        THEN Outcome([contents |-> <<>>,
                      err |-> <<"failed to get spreadsheet">> \o getReply.err],
                     <<GetCall(spreadsheetID)>>)
        ELSE Outcome([contents |-> <<content>>, err |-> <<>>], <<GetCall(spreadsheetID)>>)

-----------------------------------------------------------------------------
(* handleListSpreadsheets, src/handlers.go:483 *)

\* The outcome of handleListSpreadsheets(request) on the server s, where
\* listReply is the reply of the Files.List call.  The arguments are not used.
handleListSpreadsheets(s, request, listReply) ==
    LET mime == <<"mimeType='application/vnd.google-apps.spreadsheet'">>
        query == IF s.folderID # <<>>
                 THEN mime \o <<" and '">> \o s.folderID \o <<"' in parents">>
                 ELSE mime
        call == [api |-> "Files.List", service |-> s.driveService, q |-> query,
                 spaces |-> "drive", includeItemsFromAllDrives |-> TRUE,
                 supportsAllDrives |-> TRUE, fields |-> "files(id, name)",
                 orderBy |-> "modifiedTime desc"]
        spreadsheets == [i \in 1..Len(listReply.files) |->
                            [id |-> listReply.files[i].Id, title |-> listReply.files[i].Name]]
    IN  IF listReply.err # <<>>
        THEN Outcome(respondWithError(<<"failed to list spreadsheets">> \o listReply.err),
                     <<call>>)
        ELSE Outcome(respondWithJSON([type |-> "[]map[string]string", val |-> spreadsheets]),
                     <<call>>)

-----------------------------------------------------------------------------
(* The inputs of the parser calls *)

\* The bytes arbitrary strings are made of.
SmallAlphabet == {"A", "B", "0", "1", ":", "$", "a"}

\* {letters}{digits} cells over the letters ls and the digits ds.
CellsOver(ls, maxL, ds, maxD) ==
    {l \o d : l \in Strings(ls, 1, maxL), d \in Strings(ds, 1, maxD)}

WellFormedCells == CellsOver({"A", "B"}, MaxLetters, {"0", "1"}, MaxDigits)

OneOneCells == CellsOver({"A", "B"}, 1, {"1", "2"}, 1)

CellStrings ==
    Strings(SmallAlphabet, 0, MaxCellLen)
        \cup WellFormedCells
        \cup CellsOver(Upper, MaxLetters, {"1"}, 1)

RangeStrings ==
    Strings(SmallAlphabet, 0, MaxRangeLen)
        \cup {c1 \o <<":">> \o c2 : c1 \in WellFormedCells, c2 \in WellFormedCells}
        \cup {c1 \o <<":">> \o c2 \o <<":">> \o c3 :
                c1 \in OneOneCells, c2 \in OneOneCells, c3 \in OneOneCells}

SheetIDs == {0, 42}

-----------------------------------------------------------------------------
(* Actions: one per call *)

\* The tools registerTools registers.
ToolNames ==
    {"get_sheet_data", "get_sheet_formulas", "update_cells", "batch_update_cells",
     "add_rows", "add_columns", "list_sheets", "create_sheet", "copy_sheet",
     "rename_sheet", "create_spreadsheet", "get_multiple_sheet_data",
     "get_multiple_spreadsheet_summary", "append_data", "clear_range", "delete_sheet",
     "duplicate_sheet", "find_replace", "sort_range", "format_cells", "merge_cells",
     "unmerge_cells", "hide_sheet", "unhide_sheet"}

\* The server NewSheetsMCPServer constructs: the handles of the two remote
\* services, the Drive folder of the configuration (DRIVE_FOLDER_ID, "" when
\* unset) and the MCP server with its tools and resource template.
NewSheetsMCPServer(folderID) ==
    [sheetsService |-> "sheets.Service", driveService |-> "drive.Service",
     folderID |-> folderID,
     mcpServer |-> [tools |-> ToolNames,
                    resources |-> {"spreadsheet://{spreadsheet_id}/info"}]]

Init ==
    /\ op = "none"
    /\ input = <<>>
    /\ output = <<>>
    /\ calls = <<>>
    /\ server \in {NewSheetsMCPServer(folderID) : folderID \in {<<>>, <<"F">>}}

CallParseA1Notation ==
    /\ op = "none"
    /\ \E cell \in CellStrings :
        /\ op' = "parseA1Notation"
        /\ input' = [cell |-> cell]
        /\ output' = parseA1Notation(cell)
        /\ calls' = <<>>
        /\ UNCHANGED server

CallParseGridRange ==
    /\ op = "none"
    /\ \E sheetID \in SheetIDs, rangeStr \in RangeStrings :
        /\ op' = "parseGridRange"
        /\ input' = [sheetID |-> sheetID, rangeStr |-> rangeStr]
        /\ output' = parseGridRange(sheetID, rangeStr)
        /\ calls' = <<>>
        /\ UNCHANGED server

\* The values an argument can hold: each dynamic type JSON decoding produces.
ArgValues ==
    {StringV(<<>>), StringV(<<"f", "i", "v", "e">>),
     FloatV(0), FloatV(5), FloatV(50),
     BoolV(TRUE), BoolV(FALSE),
     NilV, MapV(EmptyMap), ListV(<<>>)}

\* The defaults the handlers pass: "", "csv", 0.0, 5.0, false and true.
DefaultValues ==
    {StringV(<<>>), StringV(<<"c", "s", "v">>), FloatV(0), FloatV(50),
     BoolV(FALSE), BoolV(TRUE)}

CallParseArgument ==
    /\ op = "none"
    /\ \E args \in Bags({"count", "flag"}, ArgValues),
          key \in {"count", "flag", "range"},
          defaultValue \in DefaultValues :
        /\ op' = "parseArgument"
        /\ input' = [args |-> args, key |-> key, defaultValue |-> defaultValue]
        /\ output' = parseArgument(args, key, defaultValue)
        /\ calls' = <<>>
        /\ UNCHANGED server

\* The values a color component can hold: 0.5, 1.5 and -0.5, and a string.
ComponentValues == {FloatV(5), FloatV(15), FloatV(-5), StringV(<<"1">>)}

ColorValues ==
    {MapV(m) : m \in Bags({"red", "green", "blue", "alpha"}, ComponentValues)}
        \cup {StringV(<<"r", "e", "d">>), FloatV(5), BoolV(TRUE), NilV, ListV(<<>>)}

CallParseColor ==
    /\ op = "none"
    /\ \E colorRaw \in ColorValues :
        /\ op' = "parseColor"
        /\ input' = [colorRaw |-> colorRaw]
        /\ output' = parseColor(colorRaw)
        /\ calls' = <<>>
        /\ UNCHANGED server

\* An argument left out of the bag.
Absent == [type |-> "absent", val |-> <<>>]

\* The bag holding the arguments of choice that are not Absent.
MakeBag(choice) == [k \in {k \in DOMAIN choice : choice[k] # Absent} |-> choice[k]]

\* Replies of Spreadsheets.Get: a failure, a spreadsheet holding the sheet
\* "S1" with id 42 after the sheet "S0", and one holding only "S0".
GetReplies ==
    {[err |-> <<"googleapi: Error 404">>, sheets |-> <<>>],
     [err |-> <<>>, sheets |-> <<[Title |-> <<"S", "0">>, SheetId |-> 0],
                                 [Title |-> <<"S", "1">>, SheetId |-> 42]>>],
     [err |-> <<>>, sheets |-> <<[Title |-> <<"S", "0">>, SheetId |-> 0]>>]}

\* Replies of Spreadsheets.BatchUpdate: a failure and a success.
BatchReplies ==
    {[err |-> <<"googleapi: Error 400">>, result |-> <<>>],
     [err |-> <<>>, result |-> [spreadsheetId |-> <<"i", "d">>]]}

\* Arguments of format_cells: each one left out, of its declared type, or of
\* another type.
FormatRequests ==
    {[Arguments |-> MapV(MakeBag(
        [spreadsheet_id |-> sid, sheet |-> sh, range |-> rg, background_color |-> bg,
         text_color |-> fg, bold |-> b, italic |-> it, font_size |-> fs]))] :
        sid \in {Absent, StringV(<<"i", "d">>), FloatV(10)},
        sh \in {Absent, StringV(<<"S", "1">>), BoolV(TRUE)},
        rg \in {Absent, StringV(<<"A", "1", ":", "B", "2">>), StringV(<<"A", "1">>)},
        bg \in {Absent, MapV([k \in {"red"} |-> FloatV(5)]), StringV(<<"r", "e", "d">>)},
        fg \in {Absent, MapV([k \in {"blue"} |-> FloatV(10)]), FloatV(5)},
        b \in {Absent, BoolV(TRUE), StringV(<<"y", "e", "s">>)},
        it \in {Absent, BoolV(FALSE), FloatV(10)},
        fs \in {Absent, FloatV(125), StringV(<<"1", "2">>)}}
      \cup {[Arguments |-> NilV], [Arguments |-> ListV(<<>>)]}

CallFormatCells ==
    /\ op = "none"
    /\ \E request \in FormatRequests, getReply \in GetReplies, batchReply \in BatchReplies :
        LET outcome == handleFormatCells(request, getReply, batchReply)
        IN  /\ op' = "format_cells"
            /\ input' = [request |-> request, getReply |-> getReply, batchReply |-> batchReply]
            /\ output' = outcome.response
            /\ calls' = outcome.calls
            /\ UNCHANGED server

\* The items and replies of a batch, one per position.
Lists(items, maxLen) == UNION {[1..n -> items] : n \in 0..maxLen}

\* The number of items of a batch argument (0 when it is not a list).
ItemCount(args, key) ==
    IF key \in DOMAIN args /\ args[key].type = "[]any" THEN Len(args[key].val) ELSE 0

\* A query of get_multiple_sheet_data: complete (two of them, to tell the
\* entries apart), with an empty sheet, without range, with a null sheet, with
\* a numeric range, and an item that is no object.
QueryItems ==
    {MapV([spreadsheet_id |-> StringV(<<"i", "d">>), sheet |-> StringV(<<"S", "1">>),
           range |-> StringV(<<"A", "1">>)]),
     MapV([spreadsheet_id |-> StringV(<<"i", "2">>), sheet |-> StringV(<<"S", "0">>),
           range |-> StringV(<<"B", "2">>)]),
     MapV([spreadsheet_id |-> StringV(<<"i", "d">>), sheet |-> StringV(<<>>),
           range |-> StringV(<<"A", "1">>)]),
     MapV([spreadsheet_id |-> StringV(<<"i", "d">>), sheet |-> StringV(<<"S", "1">>)]),
     MapV([spreadsheet_id |-> StringV(<<"i", "d">>), sheet |-> NilV,
           range |-> StringV(<<"A", "1">>)]),
     MapV([spreadsheet_id |-> StringV(<<"i", "d">>), sheet |-> StringV(<<"S", "1">>),
           range |-> FloatV(50)]),
     FloatV(50)}

\* Requests of a batch tool whose list argument is key: the lists over items,
\* and the argument left out, null or a string, and no argument object at all.
BatchRequests(key, items, others) ==
    {[Arguments |-> MapV(MakeBag([o \in DOMAIN others \cup {key} |->
                                     IF o = key THEN l ELSE others[o]]))] :
        l \in {ListV(x) : x \in Lists(items, MaxItems)}
                \cup {Absent, NilV, StringV(<<"i", "d">>)}}
      \cup {[Arguments |-> NilV]}

\* Replies of Spreadsheets.Values.Get: a failure, and two rows of one cell.
ValuesReplies ==
    {[err |-> <<"googleapi: Error 403">>, Values |-> <<>>],
     [err |-> <<>>, Values |-> << <<"h">>, <<"v">> >>]}

CallGetMultipleSheetData ==
    /\ op = "none"
    /\ \E request \in BatchRequests("queries", QueryItems, EmptyMap) :
        \E valuesReplies \in
              [1..ItemCount(getArgsFromRequest(request).args, "queries") -> ValuesReplies] :
            LET outcome == handleGetMultipleSheetData(request, valuesReplies)
            IN  /\ op' = "get_multiple_sheet_data"
                /\ input' = [request |-> request, valuesReplies |-> valuesReplies]
                /\ output' = outcome.response
                /\ calls' = outcome.calls
                /\ UNCHANGED server

\* A recipient of share_spreadsheet: complete, without role, without
\* email_address, with a role that does not exist, and with a numeric role.
RecipientItems ==
    {MapV([email_address |-> StringV(<<"a", "@", "x">>), role |-> StringV(Reader)]),
     MapV([email_address |-> StringV(<<"b", "@", "x">>)]),
     MapV([role |-> StringV(Commenter)]),
     MapV([email_address |-> StringV(<<"c", "@", "x">>), role |-> StringV(<<"o", "w", "n">>)]),
     MapV([email_address |-> StringV(<<"d", "@", "x">>), role |-> FloatV(10)])}

\* The other arguments of share_spreadsheet.
ShareOthers ==
    {[spreadsheet_id |-> StringV(<<"i", "d">>), send_notification |-> Absent],
     [spreadsheet_id |-> StringV(<<"i", "d">>), send_notification |-> BoolV(FALSE)],
     [spreadsheet_id |-> Absent, send_notification |-> Absent]}

\* Replies of Permissions.Create: a failure and a success.
CreateReplies ==
    {[err |-> <<"googleapi: Error 400">>, Id |-> <<>>],
     [err |-> <<>>, Id |-> <<"p", "1">>]}

CallShareSpreadsheet ==
    /\ op = "none"
    /\ \E others \in ShareOthers :
        \E request \in BatchRequests("recipients", RecipientItems, others) :
            \E createReplies \in
                  [1..ItemCount(getArgsFromRequest(request).args, "recipients") -> CreateReplies] :
                LET outcome == handleShareSpreadsheet(request, createReplies)
                IN  /\ op' = "share_spreadsheet"
                    /\ input' = [request |-> request, createReplies |-> createReplies]
                    /\ output' = outcome.response
                    /\ calls' = outcome.calls
                    /\ UNCHANGED server

\* An id of get_multiple_spreadsheet_summary: two ids, and a number.
IdItems == {StringV(<<"i", "d">>), StringV(<<"i", "2">>), FloatV(50)}

\* What the remote API answers for one spreadsheet: the reply of the metadata
\* fetch and the replies of the reads of its sheets.  The fetch fails; or the
\* spreadsheet holds a sheet that reads, one without title and one whose read
\* fails; or one whose read fails and one that reads; or no sheet at all.
SpreadsheetReplies ==
    LET ok == [err |-> <<>>, Values |-> << <<"h">>, <<"v">> >>]
        ko == [err |-> <<"googleapi: Error 403">>, Values |-> <<>>]
        S0 == [Title |-> <<"S", "0">>, SheetId |-> 0]
        S1 == [Title |-> <<"S", "1">>, SheetId |-> 42]
        untitled == [Title |-> <<>>, SheetId |-> 7]
    IN  {[get |-> [err |-> <<"googleapi: Error 404">>, Title |-> <<>>, Sheets |-> <<>>],
          values |-> <<>>],
         [get |-> [err |-> <<>>, Title |-> <<"T">>, Sheets |-> <<S0, untitled, S1>>],
          values |-> <<ok, ok, ko>>],
         [get |-> [err |-> <<>>, Title |-> <<"T">>, Sheets |-> <<S0, S1>>],
          values |-> <<ko, ok>>],
         [get |-> [err |-> <<>>, Title |-> <<"T">>, Sheets |-> <<>>],
          values |-> <<>>]}

\* The other arguments of get_multiple_spreadsheet_summary.
SummaryOthers == {[rows_to_fetch |-> Absent], [rows_to_fetch |-> FloatV(20)]}

CallGetMultipleSpreadsheetSummary ==
    /\ op = "none"
    /\ \E others \in SummaryOthers :
        \E request \in BatchRequests("spreadsheet_ids", IdItems, others) :
            \E replies \in
                  [1..ItemCount(getArgsFromRequest(request).args, "spreadsheet_ids")
                      -> SpreadsheetReplies] :
                LET getReplies == [i \in DOMAIN replies |-> replies[i].get]
                    valuesReplies == [i \in DOMAIN replies |-> replies[i].values]
                    outcome == handleGetMultipleSpreadsheetSummary(request, getReplies,
                                                                   valuesReplies)
                IN  /\ op' = "get_multiple_spreadsheet_summary"
                    /\ input' = [request |-> request, getReplies |-> getReplies,
                                 valuesReplies |-> valuesReplies]
                    /\ output' = outcome.response
                    /\ calls' = outcome.calls
                    /\ UNCHANGED server

\* Sheet lists of a spreadsheet: up to MaxItems sheets titled "S1", "s1" or
\* "S", the sheet at position i having the id 10 * i.
SheetLists ==
    {[i \in 1..Len(titles) |-> [Title |-> titles[i], SheetId |-> 10 * i]] :
        titles \in Lists({<<"S", "1">>, <<"s", "1">>, <<"S">>}, MaxItems)}

CallGetSheetID ==
    /\ op = "none"
    /\ \E sheetName \in {<<"S", "1">>, <<"s", "1">>, <<"S">>, <<>>},
          getReply \in {[err |-> <<"googleapi: Error 404">>, sheets |-> <<>>]}
                          \cup {[err |-> <<>>, sheets |-> l] : l \in SheetLists} :
        /\ op' = "getSheetID"
        /\ input' = [spreadsheetID |-> <<"i", "d">>, sheetName |-> sheetName,
                     getReply |-> getReply]
        /\ output' = getSheetID(<<"i", "d">>, sheetName, getReply)
        /\ calls' = <<GetCall(<<"i", "d">>)>>
        /\ UNCHANGED server

\* A request of a tool: the argument object holding the arguments of choice
\* that are not Absent.
Request(choice) == [Arguments |-> MapV(MakeBag(choice))]

\* A string argument: left out, empty, one of values, or a number instead.
Texts(values) == {Absent, StringV(<<>>), FloatV(10)} \cup {StringV(v) : v \in values}

\* A boolean argument: left out, true, false, or a string instead.
Flags == {Absent, BoolV(TRUE), BoolV(FALSE), StringV(<<"y", "e", "s">>)}

\* A numeric argument: left out, 0, 2, -1, 1.5, or a string instead.
Numbers == {Absent, FloatV(0), FloatV(20), FloatV(-10), FloatV(15), StringV(<<"2">>)}

\* Replies of a remote call that returns result: a failure and the success.
Replies(err, result) == {[err |-> err, result |-> <<>>], [err |-> <<>>, result |-> result]}

CallGetSheetData ==
    /\ op = "none"
    /\ \E sid \in Texts({<<"i", "d">>}), sh \in Texts({<<"S", "1">>}),
          rg \in Texts({<<"A", "1">>}), grid \in Flags,
          getReply \in GetReplies, valuesReply \in ValuesReplies :
        LET request == Request([spreadsheet_id |-> sid, sheet |-> sh, range |-> rg,
                                include_grid_data |-> grid])
            outcome == handleGetSheetData(request, getReply, valuesReply)
        IN  /\ op' = "get_sheet_data"
            /\ input' = [request |-> request, getReply |-> getReply,
                         valuesReply |-> valuesReply]
            /\ output' = outcome.response
            /\ calls' = outcome.calls
            /\ UNCHANGED server

CallGetSheetFormulas ==
    /\ op = "none"
    /\ \E sid \in Texts({<<"i", "d">>}), sh \in Texts({<<"S", "1">>}),
          rg \in Texts({<<"A", "1">>}), valuesReply \in ValuesReplies :
        LET request == Request([spreadsheet_id |-> sid, sheet |-> sh, range |-> rg])
            outcome == handleGetSheetFormulas(request, valuesReply)
        IN  /\ op' = "get_sheet_formulas"
            /\ input' = [request |-> request, valuesReply |-> valuesReply]
            /\ output' = outcome.response
            /\ calls' = outcome.calls
            /\ UNCHANGED server

\* The data of update_cells: left out, null, no row, one row of one cell, a row
\* that is no list, and a string.
DataValues ==
    {Absent, NilV, ListV(<<>>), ListV(<<ListV(<<StringV(<<"v">>)>>)>>),
     ListV(<<StringV(<<"v">>)>>), StringV(<<"v">>)}

CallUpdateCells ==
    /\ op = "none"
    /\ \E sid \in Texts({<<"i", "d">>}), sh \in Texts({<<"S", "1">>}),
          rg \in Texts({<<"A", "1">>}), data \in DataValues,
          updateReply \in Replies(<<"googleapi: Error 400">>, [updatedCells |-> 1]) :
        LET request == Request([spreadsheet_id |-> sid, sheet |-> sh, range |-> rg,
                                data |-> data])
            outcome == handleUpdateCells(request, updateReply)
        IN  /\ op' = "update_cells"
            /\ input' = [request |-> request, updateReply |-> updateReply]
            /\ output' = outcome.response
            /\ calls' = outcome.calls
            /\ UNCHANGED server

\* The ranges of batch_update_cells: left out, a list instead of an object,
\* and every object over the keys "A1", "B2" and "C3" that holds rows, no row,
\* null, a row that is no list, or a string under each key.
RangeMaps ==
    {Absent, ListV(<<>>)}
        \cup {MapV(m) : m \in Bags({"A1", "B2", "C3"},
                                   {ListV(<<ListV(<<StringV(<<"v">>)>>)>>), NilV,
                                    ListV(<<StringV(<<"v">>)>>), StringV(<<"v">>)})}

\* The orders in which a run can visit the keys of ranges: each key once.
KeyOrders(ranges) ==
    IF ranges.type # "map[string]any" THEN {<<>>}
    ELSE {order \in [1..Cardinality(DOMAIN ranges.val) -> DOMAIN ranges.val] :
            \A i, j \in DOMAIN order : order[i] = order[j] => i = j}

CallBatchUpdateCells ==
    /\ op = "none"
    /\ \E sid \in Texts({<<"i", "d">>}), sh \in Texts({<<"S", "1">>}),
          ranges \in RangeMaps,
          updateReply \in Replies(<<"googleapi: Error 400">>, [totalUpdatedCells |-> 1]) :
        \E order \in KeyOrders(ranges) :
            LET request == Request([spreadsheet_id |-> sid, sheet |-> sh, ranges |-> ranges])
                outcome == handleBatchUpdateCells(request, order, updateReply)
            IN  /\ op' = "batch_update_cells"
                /\ input' = [request |-> request, order |-> order,
                             updateReply |-> updateReply]
                /\ output' = outcome.response
                /\ calls' = outcome.calls
                /\ UNCHANGED server

CallAddRows ==
    /\ op = "none"
    /\ \E sid \in Texts({<<"i", "d">>}), sh \in Texts({<<"S", "1">>}),
          count \in Numbers \cup {FloatV(5)}, start \in Numbers,
          getReply \in GetReplies, batchReply \in BatchReplies :
        LET request == Request([spreadsheet_id |-> sid, sheet |-> sh, count |-> count,
                                start_row |-> start])
            outcome == handleAddRows(request, getReply, batchReply)
        IN  /\ op' = "add_rows"
            /\ input' = [request |-> request, getReply |-> getReply, batchReply |-> batchReply]
            /\ output' = outcome.response
            /\ calls' = outcome.calls
            /\ UNCHANGED server

CallAddColumns ==
    /\ op = "none"
    /\ \E sid \in Texts({<<"i", "d">>}), sh \in Texts({<<"S", "1">>}),
          count \in Numbers \cup {FloatV(5)}, start \in Numbers,
          getReply \in GetReplies, batchReply \in BatchReplies :
        LET request == Request([spreadsheet_id |-> sid, sheet |-> sh, count |-> count,
                                start_column |-> start])
            outcome == handleAddColumns(request, getReply, batchReply)
        IN  /\ op' = "add_columns"
            /\ input' = [request |-> request, getReply |-> getReply, batchReply |-> batchReply]
            /\ output' = outcome.response
            /\ calls' = outcome.calls
            /\ UNCHANGED server

CallCopySheet ==
    /\ op = "none"
    /\ \E src \in Texts({<<"i", "d">>}), sh \in Texts({<<"S", "1">>}),
          dst \in Texts({<<"i", "2">>}), name \in Texts({<<"S", "1">>, <<"S", "2">>}),
          getReply \in GetReplies, batchReply \in BatchReplies,
          copyReply \in Replies(<<"googleapi: Error 403">>,
                                [Title |-> <<"S", "1">>, SheetId |-> 7]) :
        LET request == Request([src_spreadsheet |-> src, src_sheet |-> sh,
                                dst_spreadsheet |-> dst, dst_sheet |-> name])
            outcome == handleCopySheet(request, getReply, copyReply, batchReply)
        IN  /\ op' = "copy_sheet"
            /\ input' = [request |-> request, getReply |-> getReply, copyReply |-> copyReply,
                         batchReply |-> batchReply]
            /\ output' = outcome.response
            /\ calls' = outcome.calls
            /\ UNCHANGED server

CallRenameSheet ==
    /\ op = "none"
    /\ \E sid \in Texts({<<"i", "d">>}), sh \in Texts({<<"S", "1">>}),
          name \in Texts({<<"S", "2">>}),
          getReply \in GetReplies, batchReply \in BatchReplies :
        LET request == Request([spreadsheet |-> sid, sheet |-> sh, new_name |-> name])
            outcome == handleRenameSheet(request, getReply, batchReply)
        IN  /\ op' = "rename_sheet"
            /\ input' = [request |-> request, getReply |-> getReply, batchReply |-> batchReply]
            /\ output' = outcome.response
            /\ calls' = outcome.calls
            /\ UNCHANGED server

CallFindReplace ==
    /\ op = "none"
    /\ \E sid \in Texts({<<"i", "d">>}), find \in Texts({<<"a">>}),
          replacement \in {Absent, StringV(<<"b">>)}, all \in Flags,
          sh \in Texts({<<"S", "1">>}), mc \in {Absent, BoolV(TRUE)},
          getReply \in GetReplies, batchReply \in BatchReplies :
        LET request == Request([spreadsheet_id |-> sid, find |-> find,
                                replacement |-> replacement, all_sheets |-> all,
                                sheet |-> sh, match_case |-> mc])
            outcome == handleFindReplace(request, getReply, batchReply)
        IN  /\ op' = "find_replace"
            /\ input' = [request |-> request, getReply |-> getReply, batchReply |-> batchReply]
            /\ output' = outcome.response
            /\ calls' = outcome.calls
            /\ UNCHANGED server

CallSortRange ==
    /\ op = "none"
    /\ \E sid \in Texts({<<"i", "d">>}), sh \in Texts({<<"S", "1">>}),
          rg \in Texts({<<"A", "2", ":", "C", "1", "0">>, <<"A", "2", ":", "B", "1">>,
                        <<"A", "1">>}),
          column \in Numbers \cup {FloatV(10)}, ascending \in Flags,
          getReply \in GetReplies, batchReply \in BatchReplies :
        LET request == Request([spreadsheet_id |-> sid, sheet |-> sh, range |-> rg,
                                sort_column |-> column, ascending |-> ascending])
            outcome == handleSortRange(request, getReply, batchReply)
        IN  /\ op' = "sort_range"
            /\ input' = [request |-> request, getReply |-> getReply, batchReply |-> batchReply]
            /\ output' = outcome.response
            /\ calls' = outcome.calls
            /\ UNCHANGED server

CallMergeCells ==
    /\ op = "none"
    /\ \E sid \in Texts({<<"i", "d">>}), sh \in Texts({<<"S", "1">>}),
          rg \in Texts({<<"A", "1", ":", "B", "2">>, <<"A", "1">>, <<"A", ":", "B">>}),
          type \in Texts({<<"M", "E", "R", "G", "E", "_", "R", "O", "W", "S">>}),
          getReply \in GetReplies, batchReply \in BatchReplies :
        LET request == Request([spreadsheet_id |-> sid, sheet |-> sh, range |-> rg,
                                merge_type |-> type])
            outcome == handleMergeCells(request, getReply, batchReply)
        IN  /\ op' = "merge_cells"
            /\ input' = [request |-> request, getReply |-> getReply, batchReply |-> batchReply]
            /\ output' = outcome.response
            /\ calls' = outcome.calls
            /\ UNCHANGED server

CallUnmergeCells ==
    /\ op = "none"
    /\ \E sid \in Texts({<<"i", "d">>}), sh \in Texts({<<"S", "1">>}),
          rg \in Texts({<<"A", "1", ":", "B", "2">>, <<"A", "1">>, <<"A", ":", "B">>}),
          getReply \in GetReplies, batchReply \in BatchReplies :
        LET request == Request([spreadsheet_id |-> sid, sheet |-> sh, range |-> rg])
            outcome == handleUnmergeCells(request, getReply, batchReply)
        IN  /\ op' = "unmerge_cells"
            /\ input' = [request |-> request, getReply |-> getReply, batchReply |-> batchReply]
            /\ output' = outcome.response
            /\ calls' = outcome.calls
            /\ UNCHANGED server

\* The formats of the table, one outside it, and the same in capitals.
Formats ==
    {<<"c", "s", "v">>, <<"p", "d", "f">>, <<"x", "l", "s", "x">>, <<"o", "d", "s">>,
     <<"t", "s", "v">>, <<"b", "o", "g", "u", "s">>, <<"C", "S", "V">>}

CallExportSpreadsheet ==
    /\ op = "none"
    /\ \E sid \in Texts({<<"i", "d">>}), format \in Texts(Formats),
          exportReply \in Replies(<<"googleapi: Error 404">>, [StatusCode |-> 200]) :
        LET request == Request([spreadsheet_id |-> sid, format |-> format])
            outcome == handleExportSpreadsheet(request, exportReply)
        IN  /\ op' = "export_spreadsheet"
            /\ input' = [request |-> request, exportReply |-> exportReply]
            /\ output' = outcome.response
            /\ calls' = outcome.calls
            /\ UNCHANGED server

\* The call has returned and its result was delivered: the process holds nothing
\* of it any more and waits for the next call.
\* URIs of a resource read: the template filled in, without the path, without
\* the id, without id and path, without the separator, with two separators,
\* with another scheme, and the empty string.
ResourceURIs ==
    LET scheme == <<"s", "p", "r", "e", "a", "d", "s", "h", "e", "e", "t">>
        sep == <<":", "/", "/">>
        info == <<"/", "i", "n", "f", "o">>
    IN  {scheme \o sep \o <<"i", "d">> \o info,
         scheme \o sep \o <<"i", "d">>,
         scheme \o sep \o info,
         scheme \o sep,
         scheme \o <<":">> \o <<"i", "d">> \o info,
         scheme \o <<"i", "d">>,
         scheme \o sep \o <<"i", "d">> \o sep \o <<"x">>,
         <<"x">> \o sep \o <<"i", "d">> \o info,
         sep \o <<"i", "d">>,
         <<>>}

\* Replies of Spreadsheets.Get to the resource handler: a failure, a
\* spreadsheet without sheets, and one with up to two sheets, with and without
\* grid properties.
InfoReplies ==
    LET s1 == [Title |-> <<"S", "1">>, SheetId |-> 42,
               GridProperties |-> <<[RowCount |-> 1000, ColumnCount |-> 26]>>]
        s0 == [Title |-> <<"S", "0">>, SheetId |-> 0, GridProperties |-> <<>>]
    IN  {[err |-> <<"googleapi: Error 404">>, title |-> <<>>, sheets |-> <<>>]}
        \cup {[err |-> <<>>, title |-> t, sheets |-> l] :
                t \in {<<>>, <<"T">>}, l \in {<<>>, <<s1>>, <<s0>>, <<s0, s1>>, <<s1, s0>>}}

CallGetSpreadsheetInfo ==
    /\ op = "none"
    /\ \E uri \in ResourceURIs, getReply \in InfoReplies :
        LET outcome == handleGetSpreadsheetInfo(uri, getReply)
        IN  /\ op' = "get_spreadsheet_info"
            /\ input' = [uri |-> uri, getReply |-> getReply]
            /\ output' = outcome.response
            /\ calls' = outcome.calls
            /\ UNCHANGED server

\* Variant: the invocation clears the folder of the server.
CallListSpreadsheets_ForgetsFolder ==
    /\ op = "none"
    /\ \E request \in {Request([x |-> Absent]), [Arguments |-> NilV]},
          listReply \in {[err |-> <<"googleapi: Error 403">>, files |-> <<>>]}
                           \cup {[err |-> <<>>, files |-> l] :
                                   l \in Lists({[Id |-> <<"i", "d">>, Name |-> <<"T">>],
                                                [Id |-> <<"i", "2">>, Name |-> <<>>]}, MaxItems)} :
        LET outcome == handleListSpreadsheets(server, request, listReply)
        IN  /\ op' = "list_spreadsheets"
            /\ input' = [request |-> request, listReply |-> listReply]
            /\ output' = outcome.response
            /\ calls' = outcome.calls
            /\ server' = [server EXCEPT !.folderID = <<>>]

\* list_spreadsheets with or without an argument object, and Files.List
\* failing or returning up to MaxItems files.
CallListSpreadsheets ==
    /\ op = "none"
    /\ \E request \in {Request([x |-> Absent]), [Arguments |-> NilV]},
          listReply \in {[err |-> <<"googleapi: Error 403">>, files |-> <<>>]}
                           \cup {[err |-> <<>>, files |-> l] :
                                   l \in Lists({[Id |-> <<"i", "d">>, Name |-> <<"T">>],
                                                [Id |-> <<"i", "2">>, Name |-> <<>>]}, MaxItems)} :
        LET outcome == handleListSpreadsheets(server, request, listReply)
        IN  /\ op' = "list_spreadsheets"
            /\ input' = [request |-> request, listReply |-> listReply]
            /\ output' = outcome.response
            /\ calls' = outcome.calls
            /\ UNCHANGED server

Return ==
    /\ op # "none"
    /\ op' = "none"
    /\ input' = <<>>
    /\ output' = <<>>
    /\ calls' = <<>>
    /\ UNCHANGED server

ParserNext == CallParseA1Notation \/ CallParseGridRange \/ Return

HandlerNext ==
    \/ CallFormatCells
    \/ CallGetSheetData
    \/ CallGetSheetFormulas
    \/ CallUpdateCells
    \/ CallBatchUpdateCells
    \/ CallAddRows
    \/ CallAddColumns
    \/ CallCopySheet
    \/ CallRenameSheet
    \/ CallFindReplace
    \/ CallSortRange
    \/ CallMergeCells
    \/ CallUnmergeCells
    \/ CallExportSpreadsheet
    \/ Return

\* Tool invocations, one after the other, with any arguments and any replies
\* of the remote API.
HandlerSpec == Init /\ [][HandlerNext]_vars

CoercionNext == CallParseArgument \/ CallParseColor \/ Return

\* The argument coercion and the color parser called on any input.
CoercionSpec == Init /\ [][CoercionNext]_vars

\* The parser called on any input, any number of times.
ParserSpec == Init /\ [][ParserNext]_vars

LookupNext == CallGetSheetID \/ Return

\* The sheet-id lookup called on any sheet list with any name.
LookupSpec == Init /\ [][LookupNext]_vars

ServerNext ==
    \/ CallFormatCells
    \/ CallGetSheetData
    \/ CallGetSheetFormulas
    \/ CallUpdateCells
    \/ CallBatchUpdateCells
    \/ CallAddRows
    \/ CallAddColumns
    \/ CallCopySheet
    \/ CallRenameSheet
    \/ CallFindReplace
    \/ CallSortRange
    \/ CallMergeCells
    \/ CallUnmergeCells
    \/ CallExportSpreadsheet
    \/ CallGetMultipleSheetData
    \/ CallShareSpreadsheet
    \/ CallGetMultipleSpreadsheetSummary
    \/ CallGetSpreadsheetInfo
    \/ CallListSpreadsheets
    \/ Return

\* Invocations of the tool handlers and of the resource handler, one after the
\* other, in any order.
ServerSpec == Init /\ [][ServerNext]_vars

BatchNext ==
    \/ CallGetMultipleSheetData
    \/ CallShareSpreadsheet
    \/ CallGetMultipleSpreadsheetSummary
    \/ Return

\* Invocations of the batch tools, one after the other, with any items and any
\* replies of the remote API.
BatchSpec == Init /\ [][BatchNext]_vars

-----------------------------------------------------------------------------
(* What the claims speak of: A1 notation, stated without the parser *)

\* The length of the leading run of uppercase letters of s.
NumLetters(s) ==
    CHOOSE n \in 0..Len(s) :
        /\ \A i \in 1..n : s[i] \in Upper
        /\ n = Len(s) \/ s[n + 1] \notin Upper

LetterRun(s) == SubSeq(s, 1, NumLetters(s))
AfterLetters(s) == SubSeq(s, NumLetters(s) + 1, Len(s))

\* {letters}{digits}: a non-empty run of uppercase letters, then a non-empty
\* run of decimal digits, and nothing else.
WellFormedCell(s) ==
    /\ NumLetters(s) >= 1
    /\ NumLetters(s) < Len(s)
    /\ \A i \in (NumLetters(s) + 1)..Len(s) : s[i] \in Digit

Colons(s) == {k \in 1..Len(s) : s[k] = ":"}
FirstColon(s) == CHOOSE k \in Colons(s) : \A j \in Colons(s) : k <= j
BeforeColon(s) == SubSeq(s, 1, FirstColon(s) - 1)
AfterColon(s) == SubSeq(s, FirstColon(s) + 1, Len(s))

\* {letters}{digits}:{letters}{digits}
WellFormedRange(s) ==
    /\ Cardinality(Colons(s)) = 1
    /\ WellFormedCell(BeforeColon(s))
    /\ WellFormedCell(AfterColon(s))

RECURSIVE Power(_, _)
Power(b, n) == IF n = 0 THEN 1 ELSE b * Power(b, n - 1)

LetterValue(c) == CHOOSE i \in 1..26 : UpperSeq[i] = c
DigitValue(c) == (CHOOSE i \in 1..10 : DigitSeq[i] = c) - 1

\* The bijective base-26 value of a letter run: A=1 ... Z=26, AA=27, ...
RECURSIVE Bijective26(_)
Bijective26(run) ==
    IF run = <<>> THEN 0
    ELSE LetterValue(Head(run)) * Power(26, Len(run) - 1) + Bijective26(Tail(run))

\* The decimal value of a digit run.
RECURSIVE DecimalValue(_)
DecimalValue(ds) ==
    IF ds = <<>> THEN 0
    ELSE DigitValue(Head(ds)) * Power(10, Len(ds) - 1) + DecimalValue(Tail(ds))

\* The letter run whose bijective base-26 value is v.
RECURSIVE LettersOfValue(_)
LettersOfValue(v) ==
    IF v <= 0 THEN <<>>
    ELSE Append(LettersOfValue((v - 1) \div 26), UpperSeq[((v - 1) % 26) + 1])

\* The A1 notation of the cell in zero-based column col and 1-based row rowNumber.
EncodeCell(col, rowNumber) == LettersOfValue(col + 1) \o DecimalDigits(rowNumber)

-----------------------------------------------------------------------------
(* Claims on the parser *)

\* C1: for every well-formed range string "{letters}{digits}:{letters}{digits}"
\* parseGridRange succeeds and returns StartRowIndex < EndRowIndex and
\* StartColumnIndex < EndColumnIndex, whatever the relative position of the
\* two cells.  (Stated as claimed, and only for row numbers >= 1, the rows A1
\* notation has; the code returns the cells in the order written, so a range
\* written bottom-up or right-to-left breaks it.)
C1_StartBeforeEnd ==
    (/\ op = "parseGridRange"
     /\ WellFormedRange(input.rangeStr)
     /\ DecimalValue(AfterLetters(BeforeColon(input.rangeStr))) >= 1
     /\ DecimalValue(AfterLetters(AfterColon(input.rangeStr))) >= 1) =>
        /\ output.err = <<>>
        /\ output.gridRange # <<>>
        /\ output.gridRange[1].StartRowIndex < output.gridRange[1].EndRowIndex
        /\ output.gridRange[1].StartColumnIndex < output.gridRange[1].EndColumnIndex

\* C2: parseA1Notation returns an error for every cell string whose leading
\* run of uppercase letters is empty, digit-only strings such as "1" included,
\* and so parseGridRange rejects every range with such a part.  (Stated as
\* claimed; the code has no test of the letter run and accepts "1".)
C2_EmptyLetterRunRejected ==
    /\ (op = "parseA1Notation" /\ NumLetters(input.cell) = 0) => output.err # <<>>
    /\ (op = "parseGridRange" /\
          \E i \in 1..Len(Split(input.rangeStr, ":")) :
              NumLetters(Split(input.rangeStr, ":")[i]) = 0)
          => output.err # <<>>

\* The malformed range strings C3 lists.
HasLettersNoDigits(part) == NumLetters(part) >= 1 /\ NumLetters(part) = Len(part)
HasNonDigitAfterLetters(part) ==
    \E i \in (NumLetters(part) + 1)..Len(part) : part[i] \notin Digit
HasDigitsBeforeLetters(part) ==
    /\ part # <<>>
    /\ part[1] \in Digit
    /\ \E i \in 2..Len(part) : part[i] \in Upper

MalformedPart(part) ==
    \/ HasDigitsBeforeLetters(part)
    \/ HasLettersNoDigits(part)
    \/ HasNonDigitAfterLetters(part)

MalformedRange(s) ==
    \/ Cardinality(Colons(s)) # 1
    \/ MalformedPart(BeforeColon(s))
    \/ MalformedPart(AfterColon(s))

\* C3: parseGridRange returns an error and a nil GridRange for every malformed
\* range string: no colon, more than one colon, a part with digits before
\* letters, a part with letters but no row digits, a part with a non-digit
\* byte after the letter run.
C3_MalformedRejected ==
    (op = "parseGridRange" /\ MalformedRange(input.rangeStr)) =>
        /\ output.err # <<>>
        /\ output.gridRange = <<>>

\* "A1:B2:A1" was rejected.
C3_Witness ==
    /\ op = "parseGridRange"
    /\ input.rangeStr = <<"A", "1", ":", "B", "2", ":", "A", "1">>
    /\ output.err = <<"range must be in A1:B2 format">>
    /\ output.gridRange = <<>>

\* C4: for a non-empty run of uppercase letters followed by digits,
\* parseA1Notation returns as column the bijective base-26 value of the run
\* minus 1 ("A" 0, "Z" 25, "AA" 26, "AZ" 51, "BA" 52), and the column
\* determines the run: distinct runs give distinct columns.
C4_ColumnDecoding ==
    (op = "parseA1Notation" /\ WellFormedCell(input.cell)) =>
        /\ output.err = <<>>
        /\ output.col = Bijective26(LetterRun(input.cell)) - 1
        /\ LettersOfValue(output.col + 1) = LetterRun(input.cell)
        /\ LetterRun(input.cell) = <<"A">> => output.col = 0
        /\ LetterRun(input.cell) = <<"Z">> => output.col = 25
        /\ LetterRun(input.cell) = <<"A", "A">> => output.col = 26
        /\ LetterRun(input.cell) = <<"A", "Z">> => output.col = 51
        /\ LetterRun(input.cell) = <<"B", "A">> => output.col = 52

\* "BA1" was decoded to column 52.
C4_Witness ==
    /\ op = "parseA1Notation"
    /\ input.cell = <<"B", "A", "1">>
    /\ output.err = <<>>
    /\ output.col = 52

\* C5: for every accepted range "c1r1:c2r2" parseGridRange returns SheetId =
\* sheetID, StartRowIndex = r1-1, StartColumnIndex = col(c1), EndRowIndex = r2
\* and EndColumnIndex = col(c2)+1, where rN is the decimal value of the digit
\* run and col the bijective base-26 value minus 1; "A1:A1" gives rows 0..1 and
\* columns 0..1.
C5_GridRangeFields ==
    (op = "parseGridRange" /\ output.err = <<>>) =>
        LET c1r1 == BeforeColon(input.rangeStr)
            c2r2 == AfterColon(input.rangeStr)
            g == output.gridRange[1]
        IN  /\ Len(output.gridRange) = 1
            /\ g.SheetId = input.sheetID
            /\ g.StartRowIndex = DecimalValue(AfterLetters(c1r1)) - 1
            /\ g.StartColumnIndex = Bijective26(LetterRun(c1r1)) - 1
            /\ g.EndRowIndex = DecimalValue(AfterLetters(c2r2))
            /\ g.EndColumnIndex = Bijective26(LetterRun(c2r2))
            /\ input.rangeStr = <<"A", "1", ":", "A", "1">> =>
                 g = GridRange(input.sheetID, 0, 1, 0, 1)

\* "A10:B10" on sheet 42 was parsed to rows 9..10 and columns 0..2.
C5_Witness ==
    /\ op = "parseGridRange"
    /\ input.sheetID = 42
    /\ input.rangeStr = <<"A", "1", "0", ":", "B", "1", "0">>
    /\ output.gridRange = <<GridRange(42, 9, 10, 0, 2)>>

\* A digit run written without leading zeros.
CanonicalDigits(ds) == Len(ds) = 1 \/ ds[1] # "0"

RoundTrips(s, g) ==
    /\ EncodeCell(g.StartColumnIndex, g.StartRowIndex + 1) = BeforeColon(s)
    /\ EncodeCell(g.EndColumnIndex - 1, g.EndRowIndex) = AfterColon(s)

\* C6 as claimed: for every well-formed range string, re-encoding
\* (StartColumnIndex, StartRowIndex+1) and (EndColumnIndex-1, EndRowIndex) in A1
\* notation recovers the two cells of the original string.  (A row written
\* with leading zeros, "A01", is re-encoded as "A1".)
C6_RoundTrip ==
    (op = "parseGridRange" /\ WellFormedRange(input.rangeStr)) =>
        /\ output.err = <<>>
        /\ RoundTrips(input.rangeStr, output.gridRange[1])

\* C6 amended: the round trip recovers the original string for every
\* well-formed range string whose two row numbers have no leading zeros.
C6_RoundTripCanonical ==
    (/\ op = "parseGridRange"
     /\ WellFormedRange(input.rangeStr)
     /\ CanonicalDigits(AfterLetters(BeforeColon(input.rangeStr)))
     /\ CanonicalDigits(AfterLetters(AfterColon(input.rangeStr)))) =>
        /\ output.err = <<>>
        /\ RoundTrips(input.rangeStr, output.gridRange[1])

\* "AB10:BA11" was parsed and its re-encoding is "AB10:BA11".
C6_Witness ==
    /\ op = "parseGridRange"
    /\ input.rangeStr = <<"A", "B", "1", "0", ":", "B", "A", "1", "1">>
    /\ output.err = <<>>
    /\ EncodeCell(output.gridRange[1].StartColumnIndex,
                  output.gridRange[1].StartRowIndex + 1) = <<"A", "B", "1", "0">>
    /\ EncodeCell(output.gridRange[1].EndColumnIndex - 1,
                  output.gridRange[1].EndRowIndex) = <<"B", "A", "1", "1">>

-----------------------------------------------------------------------------
(* Claims on the argument coercion and the color parser *)

\* C7: parseArgument(args, key, default) returns the stored value when key is
\* present and the value's dynamic type is the type of default, and in every
\* other case (key absent, or present with another dynamic type) it returns
\* default: {"count": "five"} with the default 0.0 gives 0.0.
C7_ParseArgument ==
    op = "parseArgument" =>
        LET present == input.key \in DOMAIN input.args
            sameType == present /\ input.args[input.key].type = input.defaultValue.type
        IN  /\ sameType => output = input.args[input.key]
            /\ ~sameType => output = input.defaultValue
            /\ (/\ input.args = [k \in {"count"} |-> StringV(<<"f", "i", "v", "e">>)]
                /\ input.key = "count"
                /\ input.defaultValue = FloatV(0)) => output = FloatV(0)

\* {"count": "five"} was read with the default 0.0, which came back.
C7_Witness ==
    /\ op = "parseArgument"
    /\ input.args = [k \in {"count"} |-> StringV(<<"f", "i", "v", "e">>)]
    /\ input.key = "count"
    /\ input.defaultValue = FloatV(0)
    /\ output = FloatV(0)

ComponentDefault(k) == IF k = "alpha" THEN 10 ELSE 0

ComponentOf(color, k) ==
    CASE k = "red" -> color.Red
      [] k = "green" -> color.Green
      [] k = "blue" -> color.Blue
      [] k = "alpha" -> color.Alpha

\* C8: parseColor fails when its argument is not a nested mapping; for a
\* mapping it returns a color whose components are the supplied numbers,
\* unclamped, 0.0 for a missing red/green/blue and 1.0 for a missing alpha:
\* {"red": 0.5} gives red 0.5, green 0.0, blue 0.0, alpha 1.0.
C8_ParseColor ==
    op = "parseColor" =>
        /\ input.colorRaw.type # "map[string]any" =>
             (output.err # <<>> /\ output.color = <<>>)
        /\ input.colorRaw.type = "map[string]any" =>
             /\ output.err = <<>>
             /\ Len(output.color) = 1
             /\ \A k \in {"red", "green", "blue", "alpha"} :
                  LET m == input.colorRaw.val
                      c == ComponentOf(output.color[1], k)
                  IN  /\ k \notin DOMAIN m => c = ComponentDefault(k)
                      /\ (k \in DOMAIN m /\ m[k].type = "float64") => c = m[k].val
        /\ input.colorRaw = MapV([k \in {"red"} |-> FloatV(5)]) =>
             output.color = <<Color(5, 0, 0, 10)>>

\* {"red": 1.5, "blue": -0.5} was parsed to red 1.5, green 0.0, blue -0.5, alpha 1.0.
C8_Witness ==
    /\ op = "parseColor"
    /\ input.colorRaw.type = "map[string]any"
    /\ DOMAIN input.colorRaw.val = {"red", "blue"}
    /\ input.colorRaw.val["red"] = FloatV(15)
    /\ input.colorRaw.val["blue"] = FloatV(-5)
    /\ output = [color |-> <<Color(15, 0, -5, 10)>>, err |-> <<>>]

-----------------------------------------------------------------------------
(* Claims on the tool handlers *)

HandlerOps ==
    {"format_cells", "get_sheet_data", "get_sheet_formulas", "update_cells",
     "batch_update_cells", "add_rows", "add_columns", "copy_sheet", "rename_sheet",
     "find_replace", "sort_range", "merge_cells", "unmerge_cells", "export_spreadsheet"}

IsErrorEnvelope(response) == ~response.panic /\ DOMAIN response.body = {"error"}

BatchUpdateIssued == \E i \in 1..Len(calls) : calls[i].api = "Spreadsheets.BatchUpdate"

ArgsOf(request) == request.Arguments.val

HasType(args, key, t) == key \in DOMAIN args => args[key].type = t

\* C9: no tool handler raises a hard fault (panic), whatever the dynamic types
\* of the argument values; format_cells with a non-boolean bold or italic or a
\* non-numeric font_size returns a response.  (Stated as claimed; the type
\* assertions of handleFormatCells panic on such a value.)
C9_NoPanic ==
    op \in HandlerOps => ~output.panic

\* C10: format_cells invoked with a background_color or text_color that is
\* present but not a nested mapping returns an error envelope and issues no
\* batch-update call, whatever other options are supplied.  (Stated as claimed,
\* and only for invocations whose other options have their declared types; the
\* handler drops such a color and goes on.)
C10_MalformedColorReported ==
    (/\ op = "format_cells"
     /\ input.request.Arguments.type = "map[string]any"
     /\ \/ ~HasType(ArgsOf(input.request), "background_color", "map[string]any")
        \/ ~HasType(ArgsOf(input.request), "text_color", "map[string]any")
     /\ HasType(ArgsOf(input.request), "bold", "bool")
     /\ HasType(ArgsOf(input.request), "italic", "bool")
     /\ HasType(ArgsOf(input.request), "font_size", "float64")) =>
        /\ IsErrorEnvelope(output)
        /\ ~BatchUpdateIssued

-----------------------------------------------------------------------------
(* Claims on the batch tools *)

\* An item every member of which is a string or null.
WellTypedItem(v) ==
    /\ v.type = "map[string]any"
    /\ \A k \in DOMAIN v.val : v.val[k].type \in {"string", "nil"}

\* The string an item holds under key k: "" when the key is missing or null.
Field(v, k) ==
    IF k \in DOMAIN v.val /\ v.val[k].type = "string" THEN v.val[k].val ELSE <<>>

\* The invocation in progress is one of tool whose list argument key is a list.
BatchOf(tool, key) ==
    /\ op = tool
    /\ input.request.Arguments.type = "map[string]any"
    /\ key \in DOMAIN ArgsOf(input.request)
    /\ ArgsOf(input.request)[key].type = "[]any"

Items(key) == ArgsOf(input.request)[key].val

\* Query i lacks one of its three keys.
QueryIncomplete(q) ==
    Field(q, "spreadsheet_id") = <<>> \/ Field(q, "sheet") = <<>> \/ Field(q, "range") = <<>>

\* C11: get_multiple_sheet_data with a list of n queries returns exactly n
\* entries, entry i carrying the spreadsheet_id, sheet and range of query i; an
\* entry whose query lacks a key or whose read failed carries error and no
\* data, every other entry carries data and no error; and the reads issued are
\* those of the complete queries, in order (none for an incomplete query).
C11_MultiReadEntries ==
    (/\ BatchOf("get_multiple_sheet_data", "queries")
     /\ \A i \in 1..Len(Items("queries")) : WellTypedItem(Items("queries")[i])) =>
        LET queries == Items("queries")
            complete == SelectSeq([i \in 1..Len(queries) |-> i],
                                  LAMBDA i : ~QueryIncomplete(queries[i]))
        IN  /\ ~output.panic
            /\ ~IsErrorEnvelope(output)
            /\ Len(output.body.val) = Len(queries)
            /\ \A i \in 1..Len(queries) :
                LET e == output.body.val[i]
                    q == queries[i]
                IN  /\ e.spreadsheet_id = Field(q, "spreadsheet_id")
                    /\ e.sheet = Field(q, "sheet")
                    /\ e.range = Field(q, "range")
                    /\ IF QueryIncomplete(q) \/ input.valuesReplies[i].err # <<>>
                       THEN DOMAIN e = {"spreadsheet_id", "sheet", "range", "error"}
                       ELSE /\ DOMAIN e = {"spreadsheet_id", "sheet", "range", "data"}
                            /\ e.data = input.valuesReplies[i].Values
            /\ Len(calls) = Len(complete)
            /\ \A k \in 1..Len(complete) :
                LET q == queries[complete[k]]
                IN  calls[k] = ValuesGetCall(Field(q, "spreadsheet_id"),
                                             Field(q, "sheet") \o <<"!">> \o Field(q, "range"))

\* Three queries, the second with an empty sheet, the third's read failing:
\* entries 1 carries data, entries 2 and 3 an error, and two reads were issued.
C11_Witness ==
    /\ BatchOf("get_multiple_sheet_data", "queries")
    /\ Len(Items("queries")) = 3
    /\ \A i \in 1..3 : WellTypedItem(Items("queries")[i])
    /\ ~QueryIncomplete(Items("queries")[1])
    /\ "sheet" \in DOMAIN Items("queries")[2].val
    /\ Items("queries")[2].val["sheet"] = StringV(<<>>)
    /\ ~QueryIncomplete(Items("queries")[3])
    /\ input.valuesReplies[1].err = <<>>
    /\ input.valuesReplies[3].err # <<>>
    /\ ~IsErrorEnvelope(output)
    /\ "data" \in DOMAIN output.body.val[1]
    /\ "error" \in DOMAIN output.body.val[2]
    /\ "error" \in DOMAIN output.body.val[3]
    /\ Len(calls) = 2

\* Every item of the list argument key is an object.
ItemsAreObjects(key) ==
    \A i \in 1..Len(Items(key)) : Items(key)[i].type = "map[string]any"

\* C12: a batch is never aborted because of one bad item: whenever the list
\* argument of get_multiple_sheet_data, get_multiple_spreadsheet_summary or
\* share_spreadsheet is present (a list of objects, or of ids), whatever the
\* dynamic types of the items' fields, the response is the aggregate holding
\* one outcome per item and not a top-level error envelope.  (Stated as
\* claimed; a field that is not a string makes the decoding of the whole list
\* fail, and the handler answers with "invalid ... format" alone.)
C12_NeverAborted ==
    /\ (BatchOf("get_multiple_sheet_data", "queries") /\ ItemsAreObjects("queries")) =>
            /\ ~IsErrorEnvelope(output)
            /\ Len(output.body.val) = Len(Items("queries"))
    /\ BatchOf("get_multiple_spreadsheet_summary", "spreadsheet_ids") =>
            /\ ~IsErrorEnvelope(output)
            /\ Len(output.body.val) = Len(Items("spreadsheet_ids"))
    /\ (/\ BatchOf("share_spreadsheet", "recipients")
        /\ ItemsAreObjects("recipients")
        /\ "spreadsheet_id" \in DOMAIN ArgsOf(input.request)) =>
            /\ ~IsErrorEnvelope(output)
            /\ Len(output.body.successes) + Len(output.body.failures)
                   = Len(Items("recipients"))

\* The invocation in progress is one of share_spreadsheet that comes to its
\* loop with recipients every field of which is a string or null.
Sharing ==
    /\ BatchOf("share_spreadsheet", "recipients")
    /\ parseArgument(ArgsOf(input.request), "spreadsheet_id", StringV(<<>>)).val # <<>>
    /\ \A i \in 1..Len(Items("recipients")) : WellTypedItem(Items("recipients")[i])

\* The email_address the entry of recipient r carries.
EntryEmail(r) ==
    IF Field(r, "email_address") = <<>> THEN NilV ELSE StringV(Field(r, "email_address"))

\* Recipient i is shared with: it names an address and a role that exists (or
\* none), and its Permissions.Create call succeeds.
Shared(i) ==
    LET r == Items("recipients")[i]
    IN  /\ Field(r, "email_address") # <<>>
        /\ Field(r, "role") \in {<<>>, Reader, Commenter, Writer}
        /\ input.createReplies[i].err = <<>>

\* The positions 1..n that satisfy Test, in increasing order.
Positions(n, Test(_)) == SelectSeq([i \in 1..n |-> i], Test)

Summarising ==
    /\ BatchOf("get_multiple_spreadsheet_summary", "spreadsheet_ids")
    /\ \A i \in 1..Len(Items("spreadsheet_ids")) :
        Items("spreadsheet_ids")[i].type \in {"string", "nil"}

\* The id at position i ("" for null).
IdAt(i) ==
    IF Items("spreadsheet_ids")[i].type = "string" THEN Items("spreadsheet_ids")[i].val
    ELSE <<>>

\* The sheets of spreadsheet i the handler gets to see.
SheetsAt(i) == IF input.getReplies[i].err = <<>> THEN input.getReplies[i].Sheets ELSE <<>>

\* The reads issued: the Spreadsheets.Values.Get calls among calls.
Reads == SelectSeq(calls, LAMBDA c : c.api = "Spreadsheets.Values.Get")

\* The number of sheets with a title among the sheets of the spreadsheets
\* from position i on.
RECURSIVE TitledFrom(_, _)
TitledFrom(n, i) ==
    IF i > n THEN 0
    ELSE Len(SelectSeq(SheetsAt(i), LAMBDA sh : sh.Title # <<>>)) + TitledFrom(n, i + 1)

\* C14: get_multiple_spreadsheet_summary returns one summary per id, in input
\* order.  A spreadsheet whose metadata fetch fails gets a non-null error and
\* an empty sheets list, and the following ids are still processed.  Within a
\* spreadsheet each sheet gets one entry, in sheet order; a sheet whose read
\* fails gets a per-sheet error and the remaining sheets are still read; a
\* sheet with an empty title gets the error "Sheet title not found" and no
\* read is issued for it.
C14_SummaryIsolation ==
    Summarising =>
        LET n == Len(Items("spreadsheet_ids"))
        IN  /\ ~output.panic
            /\ ~IsErrorEnvelope(output)
            /\ Len(output.body.val) = n
            /\ \A i \in 1..n :
                LET summary == output.body.val[i]
                    sheets == input.getReplies[i].Sheets
                IN  /\ summary.spreadsheet_id = IdAt(i)
                    /\ IF input.getReplies[i].err # <<>>
                       THEN /\ summary.error # NilV
                            /\ summary.sheets = <<>>
                       ELSE /\ summary.error = NilV
                            /\ Len(summary.sheets) = Len(sheets)
                            /\ \A j \in 1..Len(sheets) :
                                LET e == summary.sheets[j]
                                    reply == input.valuesReplies[i][j]
                                IN  /\ e.title = sheets[j].Title
                                    /\ e.sheet_id = sheets[j].SheetId
                                    /\ IF sheets[j].Title = <<>>
                                       THEN e.error = StringV(<<"Sheet title not found">>)
                                       ELSE IF reply.err # <<>>
                                       THEN e.error # NilV
                                       ELSE /\ e.error = NilV
                                            /\ Len(reply.Values) > 0 => e.headers = reply.Values[1]
                                            /\ \E c \in 1..Len(Reads) :
                                                /\ Reads[c].spreadsheetID = IdAt(i)
                                                /\ SubSeq(Reads[c].range, 1, Len(sheets[j].Title) + 1)
                                                       = sheets[j].Title \o <<"!">>
            /\ Len(Reads) = TitledFrom(n, 1)
            /\ Len(calls) = n + Len(Reads)

\* Two ids, the metadata fetch of the first failing; the second spreadsheet
\* holds a sheet that reads, a sheet without title and a sheet whose read fails.
C14_Witness ==
    /\ Summarising
    /\ Len(Items("spreadsheet_ids")) = 2
    /\ input.getReplies[1].err # <<>>
    /\ input.getReplies[2].err = <<>>
    /\ Len(input.getReplies[2].Sheets) = 3
    /\ input.getReplies[2].Sheets[2].Title = <<>>
    /\ input.valuesReplies[2][1].err = <<>>
    /\ input.valuesReplies[2][3].err # <<>>
    /\ ~IsErrorEnvelope(output)
    /\ output.body.val[1].error # NilV
    /\ output.body.val[2].sheets[1].error = NilV
    /\ output.body.val[2].sheets[2].error = StringV(<<"Sheet title not found">>)
    /\ output.body.val[2].sheets[3].error # NilV
    /\ Len(Reads) = 2

-----------------------------------------------------------------------------
(* Claims on the single-item tools *)

\* The string the invocation in progress was given as argument k: "" when the
\* argument is left out or is no string.
Text(k) ==
    IF k \in DOMAIN ArgsOf(input.request) /\ ArgsOf(input.request)[k].type = "string"
    THEN ArgsOf(input.request)[k].val
    ELSE <<>>

\* The apis of the calls issued, in order.
Apis == [i \in 1..Len(calls) |-> calls[i].api]

\* The format table of export_spreadsheet, as claimed.
FormatTable ==
    {<< <<"c", "s", "v">>, <<"text/csv">> >>,
     << <<"p", "d", "f">>, <<"application/pdf">> >>,
     << <<"x", "l", "s", "x">>,
        <<"application/vnd.openxmlformats-officedocument.spreadsheetml.sheet">> >>,
     << <<"o", "d", "s">>, <<"application/vnd.oasis.opendocument.spreadsheet">> >>,
     << <<"t", "s", "v">>, <<"text/tab-separated-values">> >>}

C16_CopyThenRename ==
    op = "copy_sheet" =>
        /\ Apis \in {<<>>, <<"Spreadsheets.Get">>,
                     <<"Spreadsheets.Get", "Spreadsheets.Sheets.CopyTo">>,
                     <<"Spreadsheets.Get", "Spreadsheets.Sheets.CopyTo",
                       "Spreadsheets.BatchUpdate">>}
        /\ Len(calls) = 3 =>
            /\ input.copyReply.err = <<>>
            /\ input.copyReply.result.Title # Text("dst_sheet")
        /\ (Len(calls) >= 2 /\ input.copyReply.err = <<>>) =>
            IF input.copyReply.result.Title = Text("dst_sheet")
            THEN /\ Len(calls) = 2
                 /\ DOMAIN output.body = {"copy"}
                 /\ output.body.copy = input.copyReply.result
            ELSE /\ Len(calls) = 3
                 /\ calls[3].requests[1].UpdateSheetProperties.Properties
                        = [SheetId |-> input.copyReply.result.SheetId,
                           Title |-> Text("dst_sheet")]
                 /\ input.batchReply.err = <<>> =>
                        /\ DOMAIN output.body = {"copy", "rename"}
                        /\ output.body.copy = input.copyReply.result
                        /\ output.body.rename = input.batchReply.result

\* A copy that came with another title than dst_sheet, renamed with success.
C16_Witness ==
    /\ op = "copy_sheet"
    /\ Len(calls) = 3
    /\ input.copyReply.result.Title # Text("dst_sheet")
    /\ input.batchReply.err = <<>>
    /\ DOMAIN output.body = {"copy", "rename"}

\* The sheet ids getReply gives for the title.
IdsOf(getReply, title) ==
    {getReply.sheets[j].SheetId :
        j \in {j \in 1..Len(getReply.sheets) : getReply.sheets[j].Title = title}}

\* C17: find_replace (given spreadsheet_id and find) with all_sheets true
\* performs no sheet-id resolution and sends the request with AllSheets set
\* and SheetId unset (the zero value); otherwise it requires a non-empty sheet,
\* resolves the sheet's id before the batch update and sends the request with
\* that SheetId, and returns an error envelope with no batch update when sheet
\* is empty or cannot be resolved.
C17_ConditionalResolution ==
    (/\ op = "find_replace"
     /\ Text("spreadsheet_id") # <<>>
     /\ Text("find") # <<>>) =>
        IF "all_sheets" \in DOMAIN ArgsOf(input.request)
              /\ ArgsOf(input.request)["all_sheets"] = BoolV(TRUE)
        THEN /\ Apis = <<"Spreadsheets.BatchUpdate">>
             /\ calls[1].requests[1].FindReplace.AllSheets = TRUE
             /\ calls[1].requests[1].FindReplace.SheetId = 0
        ELSE IF Text("sheet") = <<>>
        THEN IsErrorEnvelope(output) /\ calls = <<>>
        ELSE IF input.getReply.err # <<>> \/ IdsOf(input.getReply, Text("sheet")) = {}
        THEN IsErrorEnvelope(output) /\ Apis = <<"Spreadsheets.Get">>
        ELSE /\ Apis = <<"Spreadsheets.Get", "Spreadsheets.BatchUpdate">>
             /\ calls[2].requests[1].FindReplace.AllSheets = FALSE
             /\ calls[2].requests[1].FindReplace.SheetId \in IdsOf(input.getReply, Text("sheet"))

\* all_sheets true next to a sheet name: the name is not resolved.
C17_Witness ==
    /\ op = "find_replace"
    /\ "all_sheets" \in DOMAIN ArgsOf(input.request)
    /\ ArgsOf(input.request)["all_sheets"] = BoolV(TRUE)
    /\ Text("sheet") # <<>>
    /\ Apis = <<"Spreadsheets.BatchUpdate">>
    /\ calls[1].requests[1].FindReplace.AllSheets = TRUE

\* The mandatory string arguments of each tool (the required lists of the tool
\* schemas, src/server.go:48).
RequiredTexts ==
    [t \in HandlerOps |->
        CASE t \in {"format_cells", "sort_range", "update_cells", "merge_cells",
                     "unmerge_cells"} ->
                {"spreadsheet_id", "sheet", "range"}
          [] t \in {"get_sheet_data", "get_sheet_formulas", "batch_update_cells", "add_rows",
                     "add_columns"} ->
                {"spreadsheet_id", "sheet"}
          [] t = "copy_sheet" ->
                {"src_spreadsheet", "src_sheet", "dst_spreadsheet", "dst_sheet"}
          [] t = "rename_sheet" -> {"spreadsheet", "sheet", "new_name"}
          [] t = "find_replace" -> {"spreadsheet_id", "find"}
          [] t = "export_spreadsheet" -> {"spreadsheet_id"}]

\* A mandatory string argument of the invocation is absent, empty or no string.
TextMissing == \E k \in RequiredTexts[op] : Text(k) = <<>>

\* The mandatory count of add_rows and add_columns is absent, zero or no number.
CountMissing ==
    /\ op \in {"add_rows", "add_columns"}
    /\ \/ "count" \notin DOMAIN ArgsOf(input.request)
       \/ ArgsOf(input.request)["count"].type # "float64"
       \/ ArgsOf(input.request)["count"].val = 0

\* The mandatory data of update_cells is absent or is neither a list nor null.
DataMissing ==
    /\ op = "update_cells"
    /\ \/ "data" \notin DOMAIN ArgsOf(input.request)
       \/ ArgsOf(input.request)["data"].type \notin {"[]any", "nil"}

\* The mandatory data of update_cells is empty: null, or a list without rows.
DataEmpty ==
    /\ op = "update_cells"
    /\ "data" \in DOMAIN ArgsOf(input.request)
    /\ ArgsOf(input.request)["data"] \in {NilV, ListV(<<>>)}

\* C18: every tool handler checks its mandatory fields before any remote
\* call: if a required argument is absent, empty or of the wrong dynamic type,
\* the handler returns an error envelope and issues no remote call.
\* (update_cells checks its mandatory data only for presence and shape: an
\* empty or null data goes to the remote update.)
C18_RequiredChecked ==
    (/\ op \in HandlerOps
     /\ input.request.Arguments.type = "map[string]any"
     /\ TextMissing \/ CountMissing \/ DataMissing \/ DataEmpty) =>
        /\ IsErrorEnvelope(output)
        /\ calls = <<>>

\* The reply the invocation in progress got to the call.
ReplyOf(call) ==
    CASE call.api = "Spreadsheets.Get" -> input.getReply
      [] call.api = "Spreadsheets.BatchUpdate" -> input.batchReply
      [] call.api = "Spreadsheets.Values.Get" -> input.valuesReply
      [] call.api = "Spreadsheets.Values.Update" -> input.updateReply
      [] call.api = "Spreadsheets.Values.BatchUpdate" -> input.updateReply
      [] call.api = "Spreadsheets.Sheets.CopyTo" -> input.copyReply
      [] call.api = "Files.Export" -> input.exportReply

\* The operation contexts the handlers wrap a failure in.
FailedTo ==
    {"failed to get sheet ID", "failed to get source sheet ID", "failed to get sheet data",
     "failed to get sheet values", "failed to get formulas", "failed to update cells",
     "failed to batch update cells",
     "failed to add rows", "failed to add columns", "failed to copy sheet",
     "failed to rename copied sheet",
     "failed to rename sheet", "failed to find and replace", "failed to sort range",
     "failed to format cells", "failed to merge cells", "failed to unmerge cells",
     "failed to export spreadsheet"}

\* C19: in every single-item handler a failing remote call ends the
\* invocation: the response is the one error envelope "failed to <operation>:
\* <underlying message>", the failed call is the last call issued, and no call
\* is issued twice.
C19_FailureEndsInvocation ==
    op \in HandlerOps =>
        /\ \A i \in 1..Len(calls) :
            ReplyOf(calls[i]).err # <<>> =>
                /\ i = Len(calls)
                /\ IsErrorEnvelope(output)
                /\ Head(output.body.error) \in FailedTo
                /\ Tail(output.body.error) = ReplyOf(calls[i]).err
        /\ \A i, j \in 1..Len(calls) : calls[i] = calls[j] => i = j

\* rename_sheet whose batch update fails after the lookup succeeded.
C19_Witness ==
    /\ op = "rename_sheet"
    /\ Len(calls) = 2
    /\ input.getReply.err = <<>>
    /\ input.batchReply.err # <<>>
    /\ output.body.error = <<"failed to rename sheet">> \o input.batchReply.err

\* C20: the range sent to the remote API is "{sheet}!{range}" when a sheet
\* name and a non-empty range are given; get_sheet_data and get_sheet_formulas
\* send the bare sheet name when range is omitted or empty.
C20_QualifiedRange ==
    (op \in {"get_sheet_data", "get_sheet_formulas", "update_cells"} /\ calls # <<>>) =>
        /\ Len(calls) = 1
        /\ calls[1].range = IF Text("range") # <<>>
                            THEN Text("sheet") \o <<"!">> \o Text("range")
                            ELSE Text("sheet")

\* get_sheet_data reading "S1!A1", and get_sheet_formulas reading all of "S1".
C20_Witness ==
    \/ /\ op = "get_sheet_data"
       /\ Text("range") = <<"A", "1">>
       /\ Len(calls) = 1
       /\ calls[1].range = <<"S", "1", "!", "A", "1">>
    \/ /\ op = "get_sheet_formulas"
       /\ "range" \notin DOMAIN ArgsOf(input.request)
       /\ Len(calls) = 1
       /\ calls[1].range = <<"S", "1">>

-----------------------------------------------------------------------------
(* Claims on the sheet-id lookup *)

\* C21: getSheetID returns the id of the first sheet, in list order, whose
\* title equals the requested name exactly (case-sensitive, whole string), and
\* fails with a sheet-not-found error when no title of the list equals it; it
\* never returns the id of a sheet with another title.
C21_ExactTitleLookup ==
    (op = "getSheetID" /\ input.getReply.err = <<>>) =>
        LET sheets == input.getReply.sheets
            name == input.sheetName
        IN  /\ output.err = <<>> =>
                \E i \in 1..Len(sheets) :
                    /\ sheets[i].Title = name
                    /\ sheets[i].SheetId = output.sheetID
                    /\ \A j \in 1..(i - 1) : sheets[j].Title # name
            /\ output.err # <<>> =>
                /\ Head(output.err) = "sheet not found"
                /\ \A i \in 1..Len(sheets) : sheets[i].Title # name
            /\ (\E i \in 1..Len(sheets) : sheets[i].Title = name) => output.err = <<>>

\* "S1" looked up in the list s1, S1, S1: the id of the second sheet.
C21_Witness ==
    /\ op = "getSheetID"
    /\ input.sheetName = <<"S", "1">>
    /\ input.getReply.err = <<>>
    /\ Len(input.getReply.sheets) = 3
    /\ input.getReply.sheets[1].Title = <<"s", "1">>
    /\ input.getReply.sheets[2].Title = <<"S", "1">>
    /\ input.getReply.sheets[3].Title = <<"S", "1">>
    /\ output = [sheetID |-> 20, err |-> <<>>]

\* The integer value of the number the invocation in progress was given as
\* argument k: 0 when the argument is left out or is no number.
Number(k) ==
    IF k \in DOMAIN ArgsOf(input.request) /\ ArgsOf(input.request)[k].type = "float64"
    THEN LET t == ArgsOf(input.request)[k].val
         IN  IF t >= 0 THEN t \div 10 ELSE -((-t) \div 10)
    ELSE 0

\* The batch-update calls issued by the invocation in progress.
BatchUpdates == {i \in 1..Len(calls) : calls[i].api = "Spreadsheets.BatchUpdate"}

\* C22: a sort_range that reaches the batch update sends exactly one request
\* with exactly one sort specification, whose DimensionIndex is the integer
\* value of sort_column (0 when absent), whose SortOrder is ASCENDING when
\* ascending is true or absent and DESCENDING when it is false, and whose range
\* is parseGridRange(resolved sheet id, range); range "A2:C10", sort_column 1,
\* ascending false and sheet id 42 give dimensionIndex 1, DESCENDING and the
\* range {sheetId 42, rows 1 to 10, columns 0 to 3}.
C22_SortSpecification ==
    (op = "sort_range" /\ BatchUpdates # {}) =>
        LET args == ArgsOf(input.request)
            ids == IdsOf(input.getReply, Text("sheet"))
        IN  /\ Apis = <<"Spreadsheets.Get", "Spreadsheets.BatchUpdate">>
            /\ Len(calls[2].requests) = 1
            /\ DOMAIN calls[2].requests[1] = {"SortRange"}
            /\ LET sort == calls[2].requests[1].SortRange
               IN  /\ Len(sort.SortSpecs) = 1
                   /\ sort.SortSpecs[1].DimensionIndex = Number("sort_column")
                   /\ ("ascending" \notin DOMAIN args \/ args["ascending"] = BoolV(TRUE)) =>
                        sort.SortSpecs[1].SortOrder = "ASCENDING"
                   /\ ("ascending" \in DOMAIN args /\ args["ascending"] = BoolV(FALSE)) =>
                        sort.SortSpecs[1].SortOrder = "DESCENDING"
                   /\ \E id \in ids :
                        /\ parseGridRange(id, Text("range")).err = <<>>
                        /\ sort.Range = parseGridRange(id, Text("range")).gridRange
                   /\ (/\ Text("range") = <<"A", "2", ":", "C", "1", "0">>
                       /\ Number("sort_column") = 1
                       /\ "ascending" \in DOMAIN args /\ args["ascending"] = BoolV(FALSE)
                       /\ ids = {42}) =>
                        sort = [Range |-> <<[SheetId |-> 42,
                                             StartRowIndex |-> 1, EndRowIndex |-> 10,
                                             StartColumnIndex |-> 0, EndColumnIndex |-> 3]>>,
                                SortSpecs |-> <<[DimensionIndex |-> 1,
                                                 SortOrder |-> "DESCENDING"]>>]

\* The scenario: "A2:C10" sorted by column 1, descending, on the sheet 42.
C22_Witness ==
    /\ op = "sort_range"
    /\ Text("range") = <<"A", "2", ":", "C", "1", "0">>
    /\ Number("sort_column") = 1
    /\ "ascending" \in DOMAIN ArgsOf(input.request)
    /\ ArgsOf(input.request)["ascending"] = BoolV(FALSE)
    /\ IdsOf(input.getReply, Text("sheet")) = {42}
    /\ Apis = <<"Spreadsheets.Get", "Spreadsheets.BatchUpdate">>
    /\ ~IsErrorEnvelope(output)

-----------------------------------------------------------------------------
(* Claims on the resource handler and the server *)

\* The positions of the uri of the invocation in progress where "://" starts.
SeparatorsAt ==
    {i \in 1..(Len(input.uri) - 2) : SubSeq(input.uri, i, i + 2) = <<":", "/", "/">>}

\* The spreadsheet-id segment of the uri, after its first "://", is empty.
IdSegmentEmpty ==
    LET i == CHOOSE i \in SeparatorsAt : \A j \in SeparatorsAt : i <= j
    IN  i + 3 > Len(input.uri) \/ input.uri[i + 3] = "/"

\* C23: the resource read handler fails with an invalid-URI-format error,
\* without issuing any remote call, for every malformed URI: one that lacks
\* the "://" separator and one whose spreadsheet-id segment is missing or
\* empty ("spreadsheet://", "spreadsheet:///info").
C23_MalformedURIRejected ==
    (/\ op = "get_spreadsheet_info"
     /\ SeparatorsAt = {} \/ IdSegmentEmpty) =>
        /\ output.err # <<>>
        /\ Head(output.err) \in {"invalid URI format",
                                 "invalid URI format: missing spreadsheet_id"}
        /\ calls = <<>>

-----------------------------------------------------------------------------
(* Claims on the indices of an accepted range *)

\* C25: for every range string that parseGridRange accepts, the zero-based
\* indices it returns are non-negative: StartRowIndex >= 0 and
\* StartColumnIndex >= 0, and so EndRowIndex >= 1 and EndColumnIndex >= 1,
\* also for a row number 0 as in "A0:B0".  (The code takes row number 0 to the
\* row index -1, and an empty letter run to the column index -1.)
C25_NonNegativeIndices ==
    (op = "parseGridRange" /\ output.err = <<>>) =>
        /\ output.gridRange # <<>>
        /\ output.gridRange[1].StartRowIndex >= 0
        /\ output.gridRange[1].StartColumnIndex >= 0
        /\ output.gridRange[1].EndRowIndex >= 1
        /\ output.gridRange[1].EndColumnIndex >= 1

-----------------------------------------------------------------------------
(* Claims on the single-item tools, continued *)

\* C26: copy_sheet is not atomic: when the copy succeeds and the rename that
\* follows fails, the response is only the error envelope "failed to rename
\* copied sheet: ..." without the copy result, and no compensating call is
\* issued: the failed rename is the last call, so the copied sheet stays in the
\* destination under the title the copy gave it.
C26_CopyNotRolledBack ==
    (/\ op = "copy_sheet"
     /\ Len(calls) >= 2
     /\ input.copyReply.err = <<>>
     /\ input.copyReply.result.Title # Text("dst_sheet")
     /\ input.batchReply.err # <<>>) =>
        /\ IsErrorEnvelope(output)
        /\ output.body.error = <<"failed to rename copied sheet">> \o input.batchReply.err
        /\ Apis = <<"Spreadsheets.Get", "Spreadsheets.Sheets.CopyTo",
                    "Spreadsheets.BatchUpdate">>
        /\ calls[2].destinationSpreadsheetId = Text("dst_spreadsheet")
        /\ Len(calls[3].requests) = 1
        /\ DOMAIN calls[3].requests[1] = {"UpdateSheetProperties"}

\* A copy that succeeded followed by a rename that failed.
C26_Witness ==
    /\ op = "copy_sheet"
    /\ Len(calls) = 3
    /\ input.copyReply.err = <<>>
    /\ input.batchReply.err # <<>>
    /\ IsErrorEnvelope(output)
    /\ Head(output.body.error) = "failed to rename copied sheet"

\* The sheet-id lookup of the invocation in progress fails: the remote read
\* fails or no sheet has the title asked for.
LookupFails == input.getReply.err # <<>> \/ IdsOf(input.getReply, Text("sheet")) = {}

C28_InsertDimension ==
    (/\ op \in {"add_rows", "add_columns"}
     /\ input.request.Arguments.type = "map[string]any") =>
        LET count == Number("count")
            start == Number(IF op = "add_rows" THEN "start_row" ELSE "start_column")
        IN  /\ count <= 0 =>
                /\ IsErrorEnvelope(output)
                /\ calls = <<>>
            /\ (count > 0 /\ ~TextMissing /\ ~LookupFails) =>
                /\ Apis = <<"Spreadsheets.Get", "Spreadsheets.BatchUpdate">>
                /\ Len(calls[2].requests) = 1
                /\ DOMAIN calls[2].requests[1] = {"InsertDimension"}
                /\ LET insert == calls[2].requests[1].InsertDimension
                   IN  /\ insert.Range.SheetId \in IdsOf(input.getReply, Text("sheet"))
                       /\ insert.Range.Dimension =
                            (IF op = "add_rows" THEN "ROWS" ELSE "COLUMNS")
                       /\ insert.Range.StartIndex = start
                       /\ insert.Range.EndIndex = start + count
                       /\ insert.InheritFromBefore = (start > 0)

\* Two columns added at column 2: the range 2..4, inheriting from before.
C28_Witness ==
    /\ op = "add_columns"
    /\ Number("count") = 2
    /\ Number("start_column") = 2
    /\ Len(calls) = 2
    /\ calls[2].requests[1].InsertDimension =
         [Range |-> [SheetId |-> 42, Dimension |-> "COLUMNS", StartIndex |-> 2, EndIndex |-> 4],
          InheritFromBefore |-> TRUE]

-----------------------------------------------------------------------------
(* Claims on the batch tools, continued *)

\* Recipient i is turned down before any call: it names no address, or a role
\* that does not exist.
TurnedDown(i) ==
    LET r == Items("recipients")[i]
    IN  \/ Field(r, "email_address") = <<>>
        \/ Field(r, "role") \notin {<<>>, Reader, Commenter, Writer}

\* C29: share_spreadsheet puts every recipient in exactly one of successes and
\* failures (their lengths add up to the number of recipients); a recipient
\* with an empty email_address or a role outside reader, commenter, writer is
\* in failures and no Permissions.Create call is issued for it; a recipient
\* with an empty role is shared with as writer; each list keeps input order.
C29_ExactlyOneList ==
    Sharing =>
        LET recipients == Items("recipients")
            n == Len(recipients)
            asked == Positions(n, LAMBDA i : ~TurnedDown(i))
            good == Positions(n, LAMBDA i : Shared(i))
            bad == Positions(n, LAMBDA i : ~Shared(i))
            RoleOf(i) == IF Field(recipients[i], "role") = <<>> THEN Writer
                         ELSE Field(recipients[i], "role")
        IN  /\ Len(output.body.successes) + Len(output.body.failures) = n
            /\ Len(calls) = Len(asked)
            /\ \A k \in 1..Len(asked) :
                /\ calls[k].api = "Permissions.Create"
                /\ calls[k].permission.EmailAddress = Field(recipients[asked[k]], "email_address")
                /\ calls[k].permission.Role = RoleOf(asked[k])
            /\ Len(output.body.successes) = Len(good)
            /\ \A k \in 1..Len(good) :
                /\ output.body.successes[k].email_address = EntryEmail(recipients[good[k]])
                /\ output.body.successes[k].role = RoleOf(good[k])
            /\ Len(output.body.failures) = Len(bad)
            /\ \A k \in 1..Len(bad) :
                /\ output.body.failures[k].email_address = EntryEmail(recipients[bad[k]])
                /\ TurnedDown(bad[k]) =>
                     output.body.failures[k].error
                        \in {MissingEmail, InvalidRole(Field(recipients[bad[k]], "role"))}

\* A recipient without role shared with as writer, after one without address
\* and before one with a role that does not exist: one call in all.
C29_Witness ==
    /\ Sharing
    /\ Len(Items("recipients")) = 3
    /\ Field(Items("recipients")[1], "email_address") = <<>>
    /\ Field(Items("recipients")[2], "role") = <<>>
    /\ Shared(2)
    /\ Field(Items("recipients")[3], "email_address") # <<>>
    /\ TurnedDown(3)
    /\ Len(calls) = 1
    /\ calls[1].permission.Role = Writer
    /\ Len(output.body.successes) = 1
    /\ output.body.successes[1].role = Writer
    /\ Len(output.body.failures) = 2


\* The keys of the ranges of the batch_update_cells in progress whose data is
\* no 2D array: neither null nor a list of rows each a list or null.
UnconvertibleRanges ==
    LET ranges == ArgsOf(input.request)["ranges"].val
    IN  {k \in DOMAIN ranges :
            ~ \/ ranges[k].type = "nil"
              \/ /\ ranges[k].type = "[]any"
                 /\ \A i \in 1..Len(ranges[k].val) : ranges[k].val[i].type \in {"[]any", "nil"}}

\* C30: batch_update_cells validates every range before it writes.  When the
\* data of some range of ranges is no 2D array, the response is an error
\* envelope that names such a range and no remote call is issued; otherwise
\* exactly one Spreadsheets.Values.BatchUpdate call is issued, and it carries
\* one value range "{sheet}!{range}" for each key of ranges.
C30_AllRangesValidatedFirst ==
    (/\ op = "batch_update_cells"
     /\ input.request.Arguments.type = "map[string]any"
     /\ ~TextMissing
     /\ "ranges" \in DOMAIN ArgsOf(input.request)
     /\ ArgsOf(input.request)["ranges"].type = "map[string]any") =>
        LET ranges == ArgsOf(input.request)["ranges"].val
        IN  IF UnconvertibleRanges # {}
            THEN /\ IsErrorEnvelope(output)
                 /\ calls = <<>>
                 /\ output.body.error[1] = "invalid data format for range"
                 /\ output.body.error[2] \in UnconvertibleRanges
            ELSE /\ Len(calls) = 1
                 /\ calls[1].api = "Spreadsheets.Values.BatchUpdate"
                 /\ calls[1].spreadsheetID = Text("spreadsheet_id")
                 /\ Len(calls[1].data) = Cardinality(DOMAIN ranges)
                 /\ {calls[1].data[i].Range : i \in 1..Len(calls[1].data)}
                        = {FullRange(Text("sheet"), <<k>>) : k \in DOMAIN ranges}

\* A request whose ranges hold rows under "A1" and "C3" and a string under
\* "B2", in a run that visits "A1" first: the error names "B2" and nothing is
\* written, the rows of "A1" included.
C30_Witness ==
    /\ op = "batch_update_cells"
    /\ input.request.Arguments.type = "map[string]any"
    /\ ~TextMissing
    /\ "ranges" \in DOMAIN ArgsOf(input.request)
    /\ ArgsOf(input.request)["ranges"].type = "map[string]any"
    /\ DOMAIN ArgsOf(input.request)["ranges"].val = {"A1", "B2", "C3"}
    /\ UnconvertibleRanges = {"B2"}
    /\ input.order[1] = "A1"
    /\ output.body.error[2] = "B2"
    /\ calls = <<>>

\* A request whose ranges all convert, "A1" and "B2": one call carries both.
C30_WitnessWritten ==
    /\ op = "batch_update_cells"
    /\ input.request.Arguments.type = "map[string]any"
    /\ ~TextMissing
    /\ "ranges" \in DOMAIN ArgsOf(input.request)
    /\ ArgsOf(input.request)["ranges"].type = "map[string]any"
    /\ DOMAIN ArgsOf(input.request)["ranges"].val = {"A1", "B2"}
    /\ UnconvertibleRanges = {}
    /\ Len(calls) = 1
    /\ Len(calls[1].data) = 2
=============================================================================
